---- MODULE Spec2Model ----
(***************************************************************************)
(* S.D.P.I. backend: prediction orchestration (PredictionsService), the    *)
(* ML service client (MLServiceClient), the patient / clinical-record      *)
(* service and the user administration, over the PostgreSQL schema of      *)
(* infrastructure/init-db.sql.                                             *)
(*                                                                         *)
(* Risk scores are integers in units of 10^-5 (ScoreOne = 1.0), so that    *)
(* the DECIMAL(5,4) rounding of the predictions table is observable.       *)
(* An optional value is <<>> when absent (undefined / null) and <<v>>      *)
(* when present.                                                           *)
(***************************************************************************)
EXTENDS Integers, Sequences, FiniteSets, TLC

\* ---------------------------------------------------------------- bounds
MaxRuns     == 2
MaxPatients == 2
MaxRecords  == 2

\* ------------------------------------------------------------- constants
ScoreOne       == 100000
ThresholdLow   == 30000
ThresholdHigh  == 70000
DecimalLimit   == 1000000

NULL == "NULL"

None      == <<>>
Some(v)   == <<v>>
IsSome(o) == Len(o) = 1
Val(o)    == o[1]

RiskLevels      == {"LOW", "MEDIUM", "HIGH"}
PredictionTypes == {"READMISSION_RISK", "DIABETES_RISK"}
UserRoles       == {"ADMIN", "DOCTOR", "ANALYST"}

Runs       == 1..MaxRuns
PatientIds == 1..(MaxPatients + 1)
RecordIds  == 1..(MaxRecords + 1)

\* ------------------------------------------------------------ seed data
SeedUsers ==
  << [email |-> "admin@hospital.gob.mx",  role |-> "ADMIN",  isActive |-> TRUE],
     [email |-> "doctor@hospital.gob.mx", role |-> "DOCTOR", isActive |-> TRUE] >>

\* --------------------------------------------------------- risk banding
\* The banding documented on Prediction.riskLevel.
RiskBand(score) ==
  IF score < ThresholdLow THEN "LOW"
  ELSE IF score < ThresholdHigh THEN "MEDIUM"
  ELSE "HIGH"

InUnitInterval(score) == score >= 0 /\ score <= ScoreOne

\* AuditAction: the actions an audit_log row can carry.
AuditActions ==
  { "LOGIN_SUCCESS", "LOGIN_FAILED", "LOGOUT", "PASSWORD_CHANGED",
    "USER_CREATED", "USER_UPDATED", "USER_DEACTIVATED",
    "PATIENT_CREATED", "PATIENT_UPDATED", "PATIENT_VIEWED",
    "CLINICAL_RECORD_CREATED",
    "PREDICTION_REQUESTED", "PREDICTION_COMPLETED", "PREDICTION_FAILED" }

\* ------------------------------------------------------------- state
VARIABLES
  users,            \* users table, id = index
  patients,         \* patients table, id = index
  clinicalRecords,  \* clinical_records table, id = index
  predictions,      \* predictions table in insertion order
  runs,             \* in-flight / finished requestPrediction calls
  mlPosts,          \* per run: POST /predict requests sent to the ML service
  stats,            \* the getStatistics call: its position and what it read
  reply,            \* last answer of the auth and read endpoints
  auditLog,         \* audit_log table in insertion order
  sessions,         \* JWTs in circulation and login calls in progress
  newPredictionPage, \* NewPredictionPage: the component's state
  patientCalls      \* PatientsService.create / update calls between check and save

vars == <<users, patients, clinicalRecords, predictions, runs, mlPosts, stats, reply, auditLog, sessions, newPredictionPage, patientCalls>>

\* ------------------------------------------------------- input domains
HospitalIds == {"HGR-45", "HGR-46"}

\* Bodies a caller can post for a clinical record.  The body is typed
\* Omit<CreateClinicalRecordDto, 'patientId'>, so it reaches the service as
\* sent: the optional measurements may be missing, and an id may be there.
TypicalInput ==
  [ id                     |-> None,
    age                    |-> 62,
    bmi                    |-> Some(31),
    bloodPressureSystolic  |-> Some(150),
    bloodPressureDiastolic |-> Some(95),
    glucoseLevel           |-> Some(180),
    cholesterol            |-> None,
    hba1c                  |-> None,
    previousAdmissions     |-> 3,
    lastStayDuration       |-> None,
    hasDiabetes            |-> TRUE,
    hasHypertension        |-> TRUE,
    hasHeartDisease        |-> FALSE,
    smokingStatus          |-> "FORMER" ]

SparseInput ==
  [ id                     |-> None,
    age                    |-> 45,
    bmi                    |-> None,
    bloodPressureSystolic  |-> None,
    bloodPressureDiastolic |-> None,
    glucoseLevel           |-> None,
    cholesterol            |-> None,
    hba1c                  |-> None,
    previousAdmissions     |-> 0,
    lastStayDuration       |-> Some(0),
    hasDiabetes            |-> FALSE,
    hasHypertension        |-> FALSE,
    hasHeartDisease        |-> FALSE,
    smokingStatus          |-> "NEVER" ]

ClinicalInputs == { TypicalInput, SparseInput }

\* The same body carrying the id of a clinical record.
WithId(input, id) == [input EXCEPT !.id = Some(id)]

\* Payloads the inference service can answer with a 2xx status.
Importance == [age |-> 40, glucose_level |-> 35]

Payload(score, level) ==
  [ risk_score         |-> Some(score),
    risk_level         |-> level,
    model_version      |-> "1.0.0",
    model_algorithm    |-> "logistic_regression",
    feature_importance |-> Some(Importance) ]

WellFormedPayloads ==
  { Payload(25000, "LOW"),
    Payload(82000, "HIGH"),  Payload(82000, "LOW"),
    Payload(150000, "HIGH"), Payload(DecimalLimit, "HIGH") }

\* A score with more than four decimals: 0.69996 is stored as 0.7000.
RoundedPayloads == { Payload(69996, "MEDIUM") }

MalformedPayloads ==
  { [Payload(82000, "HIGH") EXCEPT !.risk_score = None],
    [Payload(82000, "HIGH") EXCEPT !.risk_level = NULL],
    [Payload(82000, "HIGH") EXCEPT !.model_version = NULL],
    [Payload(82000, "HIGH") EXCEPT !.model_algorithm = NULL] }

MLPayloads == WellFormedPayloads \cup MalformedPayloads

\* response.data.detail of a non-2xx answer: missing, a text (FastAPI
\* HTTPException) or a list of error objects (FastAPI request validation).
NoDetail     == [type |-> "undefined", text |-> NULL]
TextDetail(t) == [type |-> "string", text |-> t]
ListDetail(t) == [type |-> "array", text |-> t]

\* Ways the POST /predict can fail: axios errors by code, an axios error
\* carrying a non-2xx response (with or without a detail), a non-axios
\* error, and a 2xx answer whose body is JSON null.
\* The request timeout of axios is reported with code ECONNABORTED.
TimeoutError ==
  [axios |-> TRUE, code |-> "ECONNABORTED", response |-> FALSE, detail |-> NoDetail]

MLFailures ==
  { [axios |-> TRUE,  code |-> "ECONNREFUSED", response |-> FALSE, detail |-> NoDetail],
    [axios |-> TRUE,  code |-> "ETIMEDOUT",    response |-> FALSE, detail |-> NoDetail],
    TimeoutError,
    [axios |-> TRUE,  code |-> "ERR_BAD_RESPONSE", response |-> TRUE,
     detail |-> TextDetail("Model not loaded")],
    [axios |-> TRUE,  code |-> "ERR_BAD_REQUEST", response |-> TRUE,
     detail |-> ListDetail("field required")],
    [axios |-> TRUE,  code |-> "ERR_BAD_RESPONSE", response |-> TRUE, detail |-> NoDetail],
    [axios |-> FALSE, code |-> "TypeError",    response |-> FALSE, detail |-> NoDetail] }

NoDto      == [patientId |-> 0, clinicalRecordId |-> 0, predictionType |-> NULL]
NoFeatures ==
  [ age |-> 0, bmi |-> None, blood_pressure_systolic |-> None,
    blood_pressure_diastolic |-> None, glucose_level |-> None,
    cholesterol |-> None, hba1c |-> None, previous_admissions |-> 0,
    last_stay_duration |-> None, has_diabetes |-> FALSE,
    has_hypertension |-> FALSE, has_heart_disease |-> FALSE,
    smoking_status |-> NULL ]
NoResponse == [risk_score |-> None, risk_level |-> NULL,
               model_version |-> NULL, model_algorithm |-> NULL,
               feature_importance |-> None]

IdleStats ==
  [ pc |-> "idle", total |-> 0, byRiskLevel |-> {}, byType |-> {},
    recentPredictions |-> <<>>, highRiskCount |-> 0 ]

NoSessions == [tokens |-> {}, pending |-> {}]

\* NewPredictionPage as mounted without a patientId in the URL.  loads and
\* waiting are the getClinicalRecords and requestPrediction calls the page
\* is awaiting; sent is the last prediction request it sent.
NoPage ==
  [ step            |-> "select-patient",
    searchResults   |-> {},
    selectedPatient |-> 0,
    clinicalRecords |-> {},
    selectedRecord  |-> None,
    predictionType  |-> "READMISSION_RISK",
    result          |-> 0,
    error           |-> FALSE,
    loads           |-> {},
    waiting         |-> {},
    sent            |-> NoDto ]

NoArg  == [id |-> 0, page |-> 0, limit |-> 0]
NoMeta == [page |-> 0, limit |-> 0, total |-> 0, totalPages |-> [kind |-> NULL, n |-> 0]]

NoReply ==
  [op |-> NULL, status |-> 0, email |-> NULL, arg |-> NoArg, data |-> <<>>, meta |-> NoMeta]

IdleRun ==
  [ pc         |-> "idle",
    dto        |-> NoDto,
    userId     |-> 0,
    features   |-> NoFeatures,
    mlResponse |-> NoResponse,
    error      |-> NULL,
    message    |-> NULL,
    resultId   |-> 0,
    trace      |-> <<>>,
    diagnostic |-> NULL,
    cancelled  |-> FALSE,
    returned   |-> None ]

\* ------------------------------------------------------------- helpers
\* Mutant: the lookup is by id alone, isActive is not part of the filter.
validate_IgnoresActive(u) == u \in 1..Len(users)

\* JwtStrategy.validate: the token's user must exist and be active.
validate(u) == u \in 1..Len(users) /\ users[u].isActive

\* @Roles(...) on a controller method, enforced for the validated user.
HasRole(u, allowed) == validate(u) /\ users[u].role \in allowed

\* Mutant: findById never throws.
PatientExists_Always(id) == TRUE

\* PatientsService.findById: the patient row with this id, if any.
PatientExists(id) == id \in 1..Len(patients)

\* Mutant: the lookup is by id alone, the owner is not part of the filter.
findOneRecord_AnyPatient(id, patientId) ==
  IF id \in 1..Len(clinicalRecords)
  THEN Some(clinicalRecords[id])
  ELSE None

\* clinicalRecordRepository.findOne({ where: { id, patientId } })
findOneRecord(id, patientId) ==
  IF id \in 1..Len(clinicalRecords) /\ clinicalRecords[id].patientId = patientId
  THEN Some(clinicalRecords[id])
  ELSE None

\* Mutant: a || null, which also turns a measured 0 into null.
Coalesce_Falsy(o, d) == IF IsSome(o) /\ Val(o) # 0 THEN o ELSE d

\* a ?? b: a unless it is undefined or null.
Coalesce(o, d) == IF IsSome(o) THEN o ELSE d

\* PredictionsService.prepareFeatures
prepareFeatures(record) ==
  [ age                      |-> record.age,
    bmi                      |-> Coalesce(record.bmi, None),
    blood_pressure_systolic  |-> Coalesce(record.bloodPressureSystolic, None),
    blood_pressure_diastolic |-> Coalesce(record.bloodPressureDiastolic, None),
    glucose_level            |-> Coalesce(record.glucoseLevel, None),
    cholesterol              |-> Coalesce(record.cholesterol, None),
    hba1c                    |-> Coalesce(record.hba1c, None),
    previous_admissions      |-> record.previousAdmissions,
    last_stay_duration       |-> Coalesce(record.lastStayDuration, None),
    has_diabetes             |-> record.hasDiabetes,
    has_hypertension         |-> record.hasHypertension,
    has_heart_disease        |-> record.hasHeartDisease,
    smoking_status           |-> record.smokingStatus ]

\* `${value}` in a template literal: a text as it is, a list of objects as
\* the texts of its elements, each of which is "[object Object]".
TemplateString(d) == IF d.type = "string" THEN d.text ELSE "[object Object]"

\* data?.detail || 'Unknown error'
DetailOrUnknown(d) ==
  IF d.type = "undefined" \/ (d.type = "string" /\ d.text = "")
  THEN "Unknown error"
  ELSE TemplateString(d)

\* Mutant: the final throw is missing, so an error no branch recognises is
\* rethrown as it came.
handleMLServiceError_Rethrow(err) ==
  IF err.axios /\ err.code = "ECONNREFUSED"
    THEN [name |-> "ServiceUnavailableException", message |-> "ML Service is not available"]
  ELSE IF err.axios /\ err.code = "ETIMEDOUT"
    THEN [name |-> "ServiceUnavailableException", message |-> "ML Service request timed out"]
  ELSE IF err.axios /\ err.response
    THEN [name |-> "ServiceUnavailableException", message |-> DetailOrUnknown(err.detail)]
  ELSE [name |-> IF err.axios THEN "AxiosError" ELSE err.code, message |-> err.code]

\* MLServiceClient.handleMLServiceError: the exception it throws.
ServiceUnavailable(msg) == [name |-> "ServiceUnavailableException", message |-> msg]

handleMLServiceError(err) ==
  IF err.axios /\ err.code = "ECONNREFUSED"
    THEN ServiceUnavailable("ML Service is not available")
  ELSE IF err.axios /\ err.code = "ETIMEDOUT"
    THEN ServiceUnavailable("ML Service request timed out")
  ELSE IF err.axios /\ err.response
    THEN ServiceUnavailable(DetailOrUnknown(err.detail))
  ELSE ServiceUnavailable("An unexpected error occurred with the ML Service")

\* NUMERIC(5,4): round half away from zero to four decimals.
DecimalRound(s) ==
  IF s >= 0 THEN ((s + 5) \div 10) * 10
  ELSE 0 - ((((0 - s) + 5) \div 10) * 10)

\* predictionRepository.create(...) in requestPrediction
createPrediction(run, mlResponse) ==
  [ patientId        |-> run.dto.patientId,
    clinicalRecordId |-> run.dto.clinicalRecordId,
    predictionType   |-> run.dto.predictionType,
    riskScore        |-> mlResponse.risk_score,
    riskLevel        |-> mlResponse.risk_level,
    modelVersion     |-> mlResponse.model_version,
    modelAlgorithm   |-> mlResponse.model_algorithm,
    featuresUsed     |-> run.features,
    featureImportance |-> mlResponse.feature_importance,
    requestedById    |-> run.userId ]

\* Constraints of the predictions table on INSERT.
InsertAccepted(entity) ==
  /\ IsSome(entity.riskScore)
  /\ DecimalRound(Val(entity.riskScore)) < DecimalLimit
  /\ DecimalRound(Val(entity.riskScore)) > 0 - DecimalLimit
  /\ entity.riskLevel \in RiskLevels
  /\ entity.modelVersion # NULL
  /\ entity.modelAlgorithm # NULL
  /\ entity.patientId \in 1..Len(patients)
  /\ entity.clinicalRecordId \in 1..Len(clinicalRecords)

\* The row as stored: generated id, score rounded by the column type.
StoredRow(entity) ==
  [ id               |-> Len(predictions) + 1,
    patientId        |-> entity.patientId,
    clinicalRecordId |-> entity.clinicalRecordId,
    predictionType   |-> entity.predictionType,
    riskScore        |-> DecimalRound(Val(entity.riskScore)),
    riskLevel        |-> entity.riskLevel,
    modelVersion     |-> entity.modelVersion,
    modelAlgorithm   |-> entity.modelAlgorithm,
    featuresUsed     |-> entity.featuresUsed,
    featureImportance |-> entity.featureImportance,
    requestedById    |-> entity.requestedById ]

\* The entity object after save(): what create() put in it plus the
\* generated id; the caller of requestPrediction gets this object.
Returned(entity, id) ==
  [ id               |-> id,
    patientId        |-> entity.patientId,
    clinicalRecordId |-> entity.clinicalRecordId,
    predictionType   |-> entity.predictionType,
    riskScore        |-> Val(entity.riskScore),
    riskLevel        |-> entity.riskLevel,
    modelVersion     |-> entity.modelVersion,
    modelAlgorithm   |-> entity.modelAlgorithm,
    featuresUsed     |-> entity.featuresUsed,
    featureImportance |-> entity.featureImportance,
    requestedById    |-> entity.requestedById ]

\* Mutant: save updates the newest row in place instead of inserting.
savePrediction_Upsert(table, row) ==
  IF table = <<>> THEN Append(table, row)
  ELSE [table EXCEPT ![Len(table)] = [row EXCEPT !.id = Len(table)]]

\* Mutant: a request fingerprint gate, the row of a (patient, record, kind)
\* that is already stored is not inserted again.
savePrediction_Dedup(table, row) ==
  IF \E i \in DOMAIN table :
        /\ table[i].patientId = row.patientId
        /\ table[i].clinicalRecordId = row.clinicalRecordId
        /\ table[i].predictionType = row.predictionType
  THEN table
  ELSE Append(table, row)

\* predictionRepository.save(prediction): INSERT of a new row.
savePrediction(table, row) == Append(table, row)

\* The call has returned or thrown: the request and its outcome stay on
\* record, the other locals are gone.
Finished(run, pc, err, msg, id, ev) ==
  [IdleRun EXCEPT !.pc = pc, !.dto = run.dto, !.userId = run.userId,
                  !.error = err, !.message = msg, !.resultId = id,
                  !.trace = Append(run.trace, ev),
                  !.cancelled = run.cancelled]

Fail(run, err, msg, ev) == Finished(run, "failed", err, msg, 0, ev)

\* ------------------------------------------------------------- Init
Init ==
  /\ users = SeedUsers
  /\ patients = <<>>
  /\ clinicalRecords = <<>>
  /\ predictions = <<>>
  /\ runs = [r \in Runs |-> IdleRun]
  /\ mlPosts = [r \in Runs |-> 0]
  /\ stats = IdleStats
  /\ reply = NoReply
  /\ auditLog = <<>>
  /\ sessions = NoSessions
  /\ newPredictionPage = NoPage
  /\ patientCalls = {}

\* ------------------------------------------- PredictionsService (runs)
RequestDtos ==
  [patientId : PatientIds, clinicalRecordId : RecordIds, predictionType : PredictionTypes]

\* POST /predictions: guards pass, the service call starts.
\* Runs are numbered in the order in which they start.
StartRun(r, u, dto) ==
  /\ runs[r].pc = "idle"
  /\ \A q \in Runs : q < r => runs[q].pc # "idle"
  /\ HasRole(u, {"ADMIN", "DOCTOR"})
  /\ runs' = [runs EXCEPT ![r] = [IdleRun EXCEPT !.pc = "findPatient",
                                                 !.dto = dto,
                                                 !.userId = u]]

RequestPrediction(r, u, dto) ==
  /\ StartRun(r, u, dto)
  /\ UNCHANGED <<users, patients, clinicalRecords, predictions, mlPosts, stats, reply, auditLog, sessions, newPredictionPage, patientCalls>>

\* await this.patientsService.findById(patientId)
FindPatient(r) ==
  /\ runs[r].pc = "findPatient"
  /\ runs' = [runs EXCEPT ![r] =
        IF PatientExists(@.dto.patientId)
        THEN [@ EXCEPT !.pc = "findRecord", !.trace = Append(@, "patientFound")]
        ELSE Fail(@, "NotFoundException", "Patient not found", "patientMissing")]
  /\ UNCHANGED <<users, patients, clinicalRecords, predictions, mlPosts, stats, reply, auditLog, sessions, newPredictionPage, patientCalls>>

\* Mutant: the POST /predict is issued before the record lookup is examined.
FindRecord_PostBeforeCheck(r) ==
  LET run == runs[r]
      rec == findOneRecord_AnyPatient(run.dto.clinicalRecordId, run.dto.patientId)
      own == IsSome(rec) /\ Val(rec).patientId = run.dto.patientId
  IN
  /\ run.pc = "findRecord"
  /\ mlPosts' = [mlPosts EXCEPT ![r] = @ + 1]
  /\ runs' = [runs EXCEPT ![r] =
        IF own
        THEN [@ EXCEPT !.pc = "awaitML",
                       !.features = prepareFeatures(Val(rec)),
                       !.trace = @ \o <<"recordFound", "post">>]
        ELSE Finished(@, "failed", "NotFoundException", "Clinical record not found",
                      0, "post")]
  /\ UNCHANGED <<users, patients, clinicalRecords, predictions, stats, reply, auditLog, sessions, newPredictionPage, patientCalls>>

\* await clinicalRecordRepository.findOne(...); on a hit prepareFeatures
\* and the POST /predict are issued in the same turn.
FindRecord(r) ==
  LET run == runs[r]
      rec == findOneRecord(run.dto.clinicalRecordId, run.dto.patientId)
  IN
  /\ run.pc = "findRecord"
  /\ IF IsSome(rec)
     THEN /\ runs' = [runs EXCEPT ![r] =
                 [@ EXCEPT !.pc = "awaitML",
                           !.features = prepareFeatures(Val(rec)),
                           !.trace = @ \o <<"recordFound", "post">>]]
          /\ mlPosts' = [mlPosts EXCEPT ![r] = @ + 1]
     ELSE /\ runs' = [runs EXCEPT ![r] =
                 Fail(@, "NotFoundException", "Clinical record not found", "recordMissing")]
          /\ UNCHANGED mlPosts
  /\ UNCHANGED <<users, patients, clinicalRecords, predictions, stats, reply, auditLog, sessions, newPredictionPage, patientCalls>>

\* MLServiceClient.predict returns response.data; requestPrediction builds
\* the entity and calls save.
MLRespond(r, payload) ==
  /\ runs[r].pc = "awaitML"
  /\ runs' = [runs EXCEPT ![r] =
        [@ EXCEPT !.pc = "saving", !.mlResponse = payload,
                  !.trace = Append(@, "response")]]
  /\ UNCHANGED <<users, patients, clinicalRecords, predictions, mlPosts, stats, reply, auditLog, sessions, newPredictionPage, patientCalls>>

\* The diagnostic text the inference service sent with a non-2xx answer.
RemoteDiagnostic(err) == IF err.response THEN err.detail.text ELSE NULL

\* Mutant: a failed inference attempt is recorded in the Prediction history.
MLFail_StoresFailedAttempt(r, err) ==
  /\ runs[r].pc = "awaitML"
  /\ runs' = [runs EXCEPT ![r] =
        [Fail(@, handleMLServiceError(err).name, handleMLServiceError(err).message,
              "mlError") EXCEPT !.diagnostic = RemoteDiagnostic(err)]]
  /\ predictions' = Append(predictions,
        StoredRow(createPrediction(runs[r], Payload(0, "LOW"))))
  /\ UNCHANGED <<users, patients, clinicalRecords, mlPosts, stats, reply, auditLog, sessions, newPredictionPage, patientCalls>>

\* Mutant: a failed request is sent once more before the run gives up.
MLFail_RetryOnce(r, err) ==
  /\ runs[r].pc = "awaitML"
  /\ IF mlPosts[r] < 2
     THEN /\ mlPosts' = [mlPosts EXCEPT ![r] = @ + 1]
          /\ runs' = [runs EXCEPT ![r].trace = Append(@, "post")]
     ELSE /\ runs' = [runs EXCEPT ![r] =
                 [Fail(@, handleMLServiceError(err).name,
                       handleMLServiceError(err).message, "mlError")
                    EXCEPT !.diagnostic = RemoteDiagnostic(err)]]
          /\ UNCHANGED mlPosts
  /\ UNCHANGED <<users, patients, clinicalRecords, predictions, stats, reply, auditLog, sessions, newPredictionPage, patientCalls>>

\* MLServiceClient.predict catches and rethrows through handleMLServiceError.
MLFail(r, err) ==
  /\ runs[r].pc = "awaitML"
  /\ runs' = [runs EXCEPT ![r] =
        [Fail(@, handleMLServiceError(err).name, handleMLServiceError(err).message,
              "mlError") EXCEPT !.diagnostic = RemoteDiagnostic(err)]]
  /\ UNCHANGED <<users, patients, clinicalRecords, predictions, mlPosts, stats, reply, auditLog, sessions, newPredictionPage, patientCalls>>

\* ConfigService.get('ML_SERVICE_TIMEOUT', 30000), in milliseconds; axios
\* arms no timer when the value is 0.
ML_SERVICE_TIMEOUT == 30000

\* Mutant: no timer is armed for the request.
MLTimeout_NoTimer(r) ==
  /\ runs[r].pc = "awaitML"
  /\ FALSE
  /\ UNCHANGED vars

\* The request timer of the axios instance fires: the POST is rejected
\* with the timeout error and predict rethrows it.
MLTimeout(r) ==
  /\ ML_SERVICE_TIMEOUT > 0
  /\ MLFail(r, TimeoutError)

\* await this.predictionRepository.save(prediction); log; return.
SavePrediction(r) ==
  LET run    == runs[r]
      entity == createPrediction(run, run.mlResponse)
  IN
  /\ run.pc = "saving"
  /\ IF InsertAccepted(entity)
     THEN /\ predictions' = savePrediction(predictions, StoredRow(entity))
          /\ runs' = [runs EXCEPT ![r] =
                 [Finished(@, "done", NULL, NULL, Len(predictions) + 1, "insert")
                    EXCEPT !.returned = Some(Returned(entity, Len(predictions) + 1))]]
     ELSE /\ runs' = [runs EXCEPT ![r] =
                 Fail(@, "QueryFailedError", "insert rejected", "insertRejected")]
          /\ UNCHANGED predictions
  /\ UNCHANGED <<users, patients, clinicalRecords, mlPosts, stats, reply, auditLog, sessions, newPredictionPage, patientCalls>>

\* ------------------------------------ PredictionsService.getStatistics
RECURSIVE DecimalString(_)
Digits == <<"0", "1", "2", "3", "4", "5", "6", "7", "8", "9">>

\* COUNT(*) is a bigint, which the driver hands over as its decimal text.
DecimalString(n) ==
  IF n < 10 THEN << Digits[n + 1] >>
  ELSE DecimalString(n \div 10) \o << Digits[(n % 10) + 1] >>

RowsWhere(table, field, value) == { i \in DOMAIN table : table[i][field] = value }

RECURSIVE SumScores(_, _)
SumScores(table, rows) ==
  IF rows = {} THEN 0
  ELSE LET i == CHOOSE j \in rows : TRUE
       IN table[i].riskScore + SumScores(table, rows \ {i})

\* SELECT p.riskLevel, COUNT(*) ... GROUP BY p.riskLevel
groupByRiskLevel(table) ==
  { [riskLevel |-> b, count |-> DecimalString(Cardinality(RowsWhere(table, "riskLevel", b)))] :
      b \in { table[i].riskLevel : i \in DOMAIN table } }

\* SELECT p.predictionType, COUNT(*), AVG(p.riskScore) ... GROUP BY p.predictionType
groupByType(table) ==
  { [predictionType |-> k,
     count          |-> DecimalString(Cardinality(RowsWhere(table, "predictionType", k))),
     avgRiskScore   |-> SumScores(table, RowsWhere(table, "predictionType", k))
                          \div Cardinality(RowsWhere(table, "predictionType", k))] :
      k \in { table[i].predictionType : i \in DOMAIN table } }

RecentLimit == 10

\* find({ order: { createdAt: 'DESC' }, take: 10 }): newest first.
recentPredictions(table) ==
  [ k \in 1..(IF Len(table) < RecentLimit THEN Len(table) ELSE RecentLimit) |->
      table[Len(table) - k + 1].id ]

\* Mutant: every Prediction that is not LOW counts as high risk.
countHighRisk_NotLow(table) ==
  Cardinality({ i \in DOMAIN table : table[i].riskLevel # "LOW" })

\* count({ where: { riskLevel: RiskLevel.HIGH } })
countHighRisk(table) == Cardinality(RowsWhere(table, "riskLevel", "HIGH"))

\* GET /predictions/statistics: guards pass, the service call starts.
GetStatistics(u) ==
  /\ stats.pc \in {"idle", "returned"}
  /\ HasRole(u, {"ADMIN", "ANALYST"})
  /\ stats' = [IdleStats EXCEPT !.pc = "count"]
  /\ UNCHANGED <<users, patients, clinicalRecords, predictions, runs, mlPosts, reply, auditLog, sessions, newPredictionPage, patientCalls>>

\* const total = await this.predictionRepository.count()
StatsCount ==
  /\ stats.pc = "count"
  /\ stats' = [stats EXCEPT !.pc = "byRiskLevel", !.total = Len(predictions)]
  /\ UNCHANGED <<users, patients, clinicalRecords, predictions, runs, mlPosts, reply, auditLog, sessions, newPredictionPage, patientCalls>>

StatsByRiskLevel ==
  /\ stats.pc = "byRiskLevel"
  /\ stats' = [stats EXCEPT !.pc = "byType",
                            !.byRiskLevel = groupByRiskLevel(predictions)]
  /\ UNCHANGED <<users, patients, clinicalRecords, predictions, runs, mlPosts, reply, auditLog, sessions, newPredictionPage, patientCalls>>

StatsByType ==
  /\ stats.pc = "byType"
  /\ stats' = [stats EXCEPT !.pc = "recent", !.byType = groupByType(predictions)]
  /\ UNCHANGED <<users, patients, clinicalRecords, predictions, runs, mlPosts, reply, auditLog, sessions, newPredictionPage, patientCalls>>

StatsRecent ==
  /\ stats.pc = "recent"
  /\ stats' = [stats EXCEPT !.pc = "highRisk",
                            !.recentPredictions = recentPredictions(predictions)]
  /\ UNCHANGED <<users, patients, clinicalRecords, predictions, runs, mlPosts, reply, auditLog, sessions, newPredictionPage, patientCalls>>

\* const highRiskCount = await count(...); return { ... }
StatsHighRisk ==
  /\ stats.pc = "highRisk"
  /\ stats' = [stats EXCEPT !.pc = "returned",
                            !.highRiskCount = countHighRisk(predictions)]
  /\ UNCHANGED <<users, patients, clinicalRecords, predictions, runs, mlPosts, reply, auditLog, sessions, newPredictionPage, patientCalls>>

\* ------------------------------------------- PredictionsService: reads
OK                    == 200
NOT_FOUND             == 404
INTERNAL_SERVER_ERROR == 500
CREATED     == 201
BAD_REQUEST == 400
CONFLICT    == 409

\* A NUMERIC(5,4) column is handed over as its decimal text: sign, one
\* integer digit, the point, four decimals.
DecimalText(v) ==
  LET a == (IF v < 0 THEN 0 - v ELSE v) \div 10
  IN (IF v < 0 THEN << "-" >> ELSE << >>)
       \o << Digits[(a \div 10000) + 1], ".",
             Digits[((a \div 1000) % 10) + 1], Digits[((a \div 100) % 10) + 1],
             Digits[((a \div 10) % 10) + 1], Digits[(a % 10) + 1] >>

\* A predictions row as a repository read returns it.
ReadRow(row) == [row EXCEPT !.riskScore = DecimalText(@)]

\* order: { createdAt: 'DESC' }; rows are created in insertion order.
NewestFirst(table) == [ k \in 1..Len(table) |-> table[Len(table) - k + 1] ]

ReadRows(rows) == [ k \in 1..Len(rows) |-> ReadRow(rows[k]) ]

\* PredictionsService.findById
findById(table, id) ==
  IF \E i \in DOMAIN table : table[i].id = id
  THEN [status |-> OK,
        data   |-> << ReadRow(table[CHOOSE i \in DOMAIN table : table[i].id = id]) >>]
  ELSE [status |-> NOT_FOUND, data |-> <<>>]

\* Mutant: the history is returned in insertion order.
getPatientHistory_OldestFirst(table, patientId) ==
  IF ~PatientExists(patientId) THEN [status |-> NOT_FOUND, data |-> <<>>]
  ELSE LET Mine(row) == row.patientId = patientId
       IN [status |-> OK, data |-> ReadRows(SelectSeq(table, Mine))]

\* PredictionsService.getPatientHistory
getPatientHistory(table, patientId) ==
  IF ~PatientExists(patientId) THEN [status |-> NOT_FOUND, data |-> <<>>]
  ELSE LET Mine(row) == row.patientId = patientId
       IN [status |-> OK, data |-> ReadRows(SelectSeq(NewestFirst(table), Mine))]

MaxLimit == 100

\* Math.min(limit, 100) in the controller
ClampLimit(limit) == IF limit < MaxLimit THEN limit ELSE MaxLimit

\* Math.ceil(total / limit) on IEEE doubles, total >= 0.
MathCeilDiv(total, limit) ==
  IF limit = 0
  THEN [kind |-> IF total = 0 THEN "NaN" ELSE "Infinity", n |-> 0]
  ELSE IF limit > 0
  THEN [kind |-> "number", n |-> (total + limit - 1) \div limit]
  ELSE [kind |-> "number", n |-> 0 - (total \div (0 - limit))]

\* PredictionsService.findAll(page, limit).  A negative OFFSET or LIMIT is
\* rejected by the database; with take = 0 the query builder either puts
\* LIMIT 0 or no LIMIT at all, depending on its version (unlimited).
findAll(table, page, limit, unlimited) ==
  LET skip    == (page - 1) * limit
      ordered == NewestFirst(table)
      total   == Len(table)
      last    == IF limit = 0 THEN (IF unlimited THEN total ELSE skip)
                 ELSE IF skip + limit < total THEN skip + limit ELSE total
  IN IF skip < 0 \/ limit < 0
     THEN [status |-> INTERNAL_SERVER_ERROR, data |-> <<>>, meta |-> NoMeta]
     ELSE [status |-> OK,
           data   |-> ReadRows(SubSeq(ordered, skip + 1, last)),
           meta   |-> [page |-> page, limit |-> limit, total |-> total,
                       totalPages |-> MathCeilDiv(total, limit)]]

\* GET /predictions/:id
FindById(u, id) ==
  /\ validate(u)
  /\ LET res == findById(predictions, id)
     IN reply' = [NoReply EXCEPT !.op = "findById", !.status = res.status,
                                 !.arg = [NoArg EXCEPT !.id = id], !.data = res.data]
  /\ UNCHANGED <<users, patients, clinicalRecords, predictions, runs, mlPosts, stats, auditLog, sessions, newPredictionPage, patientCalls>>

\* GET /predictions/patient/:patientId
GetPatientHistory(u, patientId) ==
  /\ validate(u)
  /\ LET res == getPatientHistory(predictions, patientId)
     IN reply' = [NoReply EXCEPT !.op = "getPatientHistory", !.status = res.status,
                                 !.arg = [NoArg EXCEPT !.id = patientId],
                                 !.data = res.data]
  /\ UNCHANGED <<users, patients, clinicalRecords, predictions, runs, mlPosts, stats, auditLog, sessions, newPredictionPage, patientCalls>>

\* GET /predictions?page=&limit= (both through ParseIntPipe)
FindAll(u, page, limit) ==
  /\ validate(u)
  /\ \E unlimited \in BOOLEAN :
       LET res == findAll(predictions, page, ClampLimit(limit), unlimited)
       IN reply' = [NoReply EXCEPT !.op = "findAll", !.status = res.status,
                                   !.arg = [NoArg EXCEPT !.page = page, !.limit = limit],
                                   !.data = res.data, !.meta = res.meta]
  /\ UNCHANGED <<users, patients, clinicalRecords, predictions, runs, mlPosts, stats, auditLog, sessions, newPredictionPage, patientCalls>>

\* The caller closes the connection while its request is being served.
\* The controller and the service register no close listener and pass no
\* abort signal, so nothing but the caller's side changes.
Disconnect(r) ==
  /\ runs[r].pc \in {"findPatient", "findRecord", "awaitML", "saving"}
  /\ ~runs[r].cancelled
  /\ runs' = [runs EXCEPT ![r].cancelled = TRUE]
  /\ UNCHANGED <<users, patients, clinicalRecords, predictions, mlPosts, stats, reply, auditLog, sessions, newPredictionPage, patientCalls>>

\* ----------------------------------------------------- PatientsService
MaxCalls == 2

Curps == { "CAST850101HJCRLA05", "PEGJ900215HDFRRN08" }

\* A patients row: the columns the model follows.  curp is nullable.
NewPatient(h, curp) == [hospitalId |-> h, curp |-> curp]

\* findOne({ where: { curp } })
findByCurp(curp) == { i \in 1..Len(patients) : patients[i].curp = Some(curp) }

\* UNIQUE (curp): writing this row at this place (0 = a new row) would
\* give two rows the same non-null curp.
UniqueViolation(target, row) ==
  /\ IsSome(row.curp)
  /\ \E i \in 1..Len(patients) : i # target /\ patients[i].curp = row.curp

PatientReply(op, status) == [NoReply EXCEPT !.op = op, !.status = status]

\* create with a CURP, up to the save: the duplicate check.
CreateCheck(u, h, curp) ==
  /\ HasRole(u, {"ADMIN", "DOCTOR"})
  /\ Cardinality(patientCalls) < MaxCalls
  /\ IF findByCurp(curp) # {}
     THEN /\ reply' = PatientReply("patients.create", CONFLICT)
          /\ UNCHANGED patientCalls
     ELSE /\ patientCalls' = patientCalls \cup
               {[op |-> "create", id |-> 0, target |-> 0, curp |-> Some(curp),
                 entity |-> NewPatient(h, Some(curp))]}
          /\ UNCHANGED reply
  /\ UNCHANGED <<users, patients, clinicalRecords, predictions, runs, mlPosts, stats, auditLog, sessions, newPredictionPage>>

\* create: patientRepository.save(patient), an INSERT.
CreateSave(c) ==
  /\ c \in patientCalls /\ c.op = "create"
  /\ patientCalls' = patientCalls \ {c}
  /\ IF UniqueViolation(0, c.entity)
     THEN /\ reply' = PatientReply("patients.create", INTERNAL_SERVER_ERROR)
          /\ UNCHANGED patients
     ELSE /\ Len(patients) < MaxPatients
          /\ patients' = Append(patients, c.entity)
          /\ reply' = PatientReply("patients.create", CREATED)
  /\ UNCHANGED <<users, clinicalRecords, predictions, runs, mlPosts, stats, auditLog, sessions, newPredictionPage>>

\* update, up to the save: findById, the duplicate check when the body
\* names a CURP other than the patient's, Object.assign(patient, dto).  The
\* body is typed Partial<CreatePatientDto> and reaches the service as
\* posted: it may carry the id of a stored patient.
UpdateCheck(u, id, curp, bodyId) ==
  /\ HasRole(u, {"ADMIN", "DOCTOR"})
  /\ Cardinality(patientCalls) < MaxCalls
  /\ IF ~PatientExists(id)
     THEN /\ reply' = PatientReply("patients.update", NOT_FOUND)
          /\ UNCHANGED patientCalls
     ELSE IF IsSome(curp) /\ curp # patients[id].curp /\ findByCurp(Val(curp)) # {}
     THEN /\ reply' = PatientReply("patients.update", CONFLICT)
          /\ UNCHANGED patientCalls
     ELSE /\ patientCalls' = patientCalls \cup
               {[op |-> "update", id |-> id,
                 target |-> IF IsSome(bodyId) THEN Val(bodyId) ELSE id,
                 curp |-> curp,
                 entity |-> [patients[id] EXCEPT !.curp = IF IsSome(curp) THEN curp ELSE @]]}
          /\ UNCHANGED reply
  /\ UNCHANGED <<users, patients, clinicalRecords, predictions, runs, mlPosts, stats, auditLog, sessions, newPredictionPage>>

\* update: patientRepository.save(patient), an UPDATE of the row the
\* entity's id names.
UpdateSave(c) ==
  /\ c \in patientCalls /\ c.op = "update"
  /\ patientCalls' = patientCalls \ {c}
  /\ IF UniqueViolation(c.target, c.entity)
     THEN /\ reply' = PatientReply("patients.update", INTERNAL_SERVER_ERROR)
          /\ UNCHANGED patients
     ELSE /\ patients' = [patients EXCEPT ![c.target] = c.entity]
          /\ reply' = PatientReply("patients.update", OK)
  /\ UNCHANGED <<users, clinicalRecords, predictions, runs, mlPosts, stats, auditLog, sessions, newPredictionPage>>

CreatePatient(u, h) ==
  /\ HasRole(u, {"ADMIN", "DOCTOR"})
  /\ Len(patients) < MaxPatients
  /\ patients' = Append(patients, NewPatient(h, None))
  /\ UNCHANGED <<users, clinicalRecords, predictions, runs, mlPosts, stats, reply, auditLog, sessions, newPredictionPage, patientCalls>>

UpdatePatient(u, id, h) ==
  /\ HasRole(u, {"ADMIN", "DOCTOR"})
  /\ PatientExists(id)
  /\ patients' = [patients EXCEPT ![id].hospitalId = h]
  /\ UNCHANGED <<users, clinicalRecords, predictions, runs, mlPosts, stats, reply, auditLog, sessions, newPredictionPage, patientCalls>>

\* clinicalRecordRepository.create({ ...dto, createdById }) for a new row.
NewRecord(patientId, input) ==
  [ patientId              |-> patientId,
    age                    |-> input.age,
    bmi                    |-> input.bmi,
    bloodPressureSystolic  |-> input.bloodPressureSystolic,
    bloodPressureDiastolic |-> input.bloodPressureDiastolic,
    glucoseLevel           |-> input.glucoseLevel,
    cholesterol            |-> input.cholesterol,
    hba1c                  |-> input.hba1c,
    previousAdmissions     |-> input.previousAdmissions,
    lastStayDuration       |-> input.lastStayDuration,
    hasDiabetes            |-> input.hasDiabetes,
    hasHypertension        |-> input.hasHypertension,
    hasHeartDisease        |-> input.hasHeartDisease,
    smokingStatus          |-> input.smokingStatus ]

\* save() of an entity whose id is already stored: the columns the entity
\* defines are updated, the ones it leaves undefined keep their value.
MergedRecord(old, patientId, input) ==
  [ NewRecord(patientId, input) EXCEPT
      !.bmi                    = Coalesce(input.bmi, old.bmi),
      !.bloodPressureSystolic  = Coalesce(input.bloodPressureSystolic, old.bloodPressureSystolic),
      !.bloodPressureDiastolic = Coalesce(input.bloodPressureDiastolic, old.bloodPressureDiastolic),
      !.glucoseLevel           = Coalesce(input.glucoseLevel, old.glucoseLevel),
      !.cholesterol            = Coalesce(input.cholesterol, old.cholesterol),
      !.hba1c                  = Coalesce(input.hba1c, old.hba1c),
      !.lastStayDuration       = Coalesce(input.lastStayDuration, old.lastStayDuration) ]

\* The body names a stored clinical record.
NamesStoredRecord(input) ==
  IsSome(input.id) /\ Val(input.id) \in 1..Len(clinicalRecords)

\* PatientsService.createClinicalRecord: findById, create, save.  TypeORM's
\* save inserts an entity without a stored id and updates one with it.
CreateClinicalRecord(u, patientId, input) ==
  /\ HasRole(u, {"ADMIN", "DOCTOR"})
  /\ PatientExists(patientId)
  /\ IF NamesStoredRecord(input)
     THEN clinicalRecords' =
            [clinicalRecords EXCEPT ![Val(input.id)] = MergedRecord(@, patientId, input)]
     ELSE /\ Len(clinicalRecords) < MaxRecords
          /\ clinicalRecords' = Append(clinicalRecords, NewRecord(patientId, input))
  /\ UNCHANGED <<users, patients, predictions, runs, mlPosts, stats, reply, auditLog, sessions, newPredictionPage, patientCalls>>

\* -------------------------------------------------------- UsersService
Deactivate(a, id) ==
  /\ HasRole(a, {"ADMIN"})
  /\ id \in 1..Len(users)
  /\ users' = [users EXCEPT ![id].isActive = FALSE]
  /\ UNCHANGED <<patients, clinicalRecords, predictions, runs, mlPosts, stats, reply, auditLog, sessions, newPredictionPage, patientCalls>>

Activate(a, id) ==
  /\ HasRole(a, {"ADMIN"})
  /\ id \in 1..Len(users)
  /\ users' = [users EXCEPT ![id].isActive = TRUE]
  /\ UNCHANGED <<patients, clinicalRecords, predictions, runs, mlPosts, stats, reply, auditLog, sessions, newPredictionPage, patientCalls>>

\* --------------------------------------------------------- AuthService
MaxUsers == 4


\* String.prototype.toLowerCase on the addresses used here.
toLowerCase(email) ==
  IF email = "Admin@Hospital.gob.mx" THEN "admin@hospital.gob.mx" ELSE email

RegisterEmails ==
  { "Admin@Hospital.gob.mx", "doctor@hospital.gob.mx",
    "ana@hospital.gob.mx", "luis@hospital.gob.mx" }

\* Mutant: the requested role is assigned whoever asks.
register_RoleFromRequest(table, email, role, creatorRole) ==
  IF \E i \in 1..Len(table) : table[i].email = toLowerCase(email)
  THEN [status |-> CONFLICT, users |-> table]
  ELSE [status |-> CREATED,
        users  |-> Append(table, [email    |-> toLowerCase(email),
                                  role     |-> IF role # NULL THEN role ELSE "ANALYST",
                                  isActive |-> TRUE])]

\* AuthService.register(registerDto, creatorRole?): the answer and the user
\* table it leaves.  role and creatorRole are NULL when not given.
register(table, email, role, creatorRole) ==
  IF \E i \in 1..Len(table) : table[i].email = toLowerCase(email)
  THEN [status |-> CONFLICT, users |-> table]
  ELSE IF role # NULL /\ creatorRole # "ADMIN"
  THEN [status |-> BAD_REQUEST, users |-> table]
  ELSE [status |-> CREATED,
        users  |-> Append(table, [email    |-> toLowerCase(email),
                                  role     |-> IF role # NULL /\ creatorRole = "ADMIN"
                                               THEN role ELSE "ANALYST",
                                  isActive |-> TRUE])]

\* POST /auth/register-initial (@Public): register({...dto, role: ADMIN})
\* with no creator role.
RegisterInitial(email) ==
  /\ Len(users) < MaxUsers
  /\ LET res == register(users, email, "ADMIN", NULL)
     IN /\ users' = res.users
        /\ reply' = [NoReply EXCEPT !.op = "register-initial", !.status = res.status,
                                  !.email = email]
  /\ UNCHANGED <<patients, clinicalRecords, predictions, runs, mlPosts, stats, auditLog, sessions, newPredictionPage, patientCalls>>

\* POST /auth/register (@Roles(ADMIN)): register(dto, currentUser.role).
Register(a, email, role) ==
  /\ HasRole(a, {"ADMIN"})
  /\ Len(users) < MaxUsers
  /\ LET res == register(users, email, role, users[a].role)
     IN /\ users' = res.users
        /\ reply' = [NoReply EXCEPT !.op = "register", !.status = res.status,
                                  !.email = email]
  /\ UNCHANGED <<patients, clinicalRecords, predictions, runs, mlPosts, stats, auditLog, sessions, newPredictionPage, patientCalls>>

\* ----------------------------------------------------- AuthService.login
UNAUTHORIZED == 401

LoginEmails ==
  { "admin@hospital.gob.mx", "doctor@hospital.gob.mx", "nadie@hospital.gob.mx" }

\* userRepository.findOne({ where: { email } }): the user's id, 0 if none.
findUserByEmail(email) ==
  IF \E i \in 1..Len(users) : users[i].email = toLowerCase(email)
  THEN CHOOSE i \in 1..Len(users) : users[i].email = toLowerCase(email)
  ELSE 0

\* The request carries a JWT that was issued to u and has not expired.
Bearer(u) == u \in sessions.tokens

LoginReply(status, email) ==
  [NoReply EXCEPT !.op = "login", !.status = status, !.email = email]

\* login, up to the password check: the user is looked up and must be
\* active; the call then awaits bcrypt.compare.
LoginFind(email, passwordValid) ==
  LET u == findUserByEmail(email)
  IN /\ \A p \in sessions.pending : p.email # email
     /\ IF u = 0 \/ ~users[u].isActive
        THEN /\ reply' = LoginReply(UNAUTHORIZED, email)
             /\ UNCHANGED sessions
        ELSE /\ sessions' = [sessions EXCEPT !.pending = @ \cup
                     {[email |-> email, user |-> u, passwordValid |-> passwordValid]}]
             /\ UNCHANGED reply
     /\ UNCHANGED <<users, patients, clinicalRecords, predictions, runs, mlPosts, stats, auditLog, newPredictionPage, patientCalls>>

\* login, from the password check on: the token is signed for the user
\* that was read.
LoginFinish(p) ==
  /\ p \in sessions.pending
  /\ IF p.passwordValid
     THEN /\ sessions' = [tokens |-> sessions.tokens \cup {p.user},
                          pending |-> sessions.pending \ {p}]
          /\ reply' = LoginReply(OK, p.email)
     ELSE /\ sessions' = [sessions EXCEPT !.pending = @ \ {p}]
          /\ reply' = LoginReply(UNAUTHORIZED, p.email)
  /\ UNCHANGED <<users, patients, clinicalRecords, predictions, runs, mlPosts, stats, auditLog, newPredictionPage, patientCalls>>

\* ignoreExpiration: false, expiresIn 24 h: the token stops being usable.
TokenExpires(u) ==
  /\ u \in sessions.tokens
  /\ sessions' = [sessions EXCEPT !.tokens = @ \ {u}]
  /\ UNCHANGED <<users, patients, clinicalRecords, predictions, runs, mlPosts, stats, reply, auditLog, newPredictionPage, patientCalls>>

\* ---------------------------------------------------- NewPredictionPage
\* patientService.getClinicalRecords(id): the patient's records as the
\* page holds them.
getClinicalRecords(patientId) ==
  { [id |-> i, patientId |-> clinicalRecords[i].patientId] :
      i \in { j \in DOMAIN clinicalRecords : clinicalRecords[j].patientId = patientId } }

\* handleSearch: the search answers with some of the stored patients.
HandleSearch(found) ==
  /\ newPredictionPage.step = "select-patient"
  /\ found \subseteq 1..Len(patients)
  /\ newPredictionPage' = [newPredictionPage EXCEPT !.searchResults = found]
  /\ UNCHANGED <<users, patients, clinicalRecords, predictions, runs, mlPosts, stats, reply, auditLog, sessions, patientCalls>>

\* handleSelectPatient, up to its await.
HandleSelectPatient(patient) ==
  /\ newPredictionPage.step = "select-patient"
  /\ patient \in newPredictionPage.searchResults
  /\ newPredictionPage' = [newPredictionPage EXCEPT !.selectedPatient = patient, !.loads = @ \cup {patient}]
  /\ UNCHANGED <<users, patients, clinicalRecords, predictions, runs, mlPosts, stats, reply, auditLog, sessions, patientCalls>>

\* handleSelectPatient, after its await: the records have arrived.
RecordsLoaded(patient) ==
  /\ patient \in newPredictionPage.loads
  /\ newPredictionPage' = [newPredictionPage EXCEPT !.clinicalRecords = getClinicalRecords(patient),
                          !.step = "select-record",
                          !.loads = @ \ {patient}]
  /\ UNCHANGED <<users, patients, clinicalRecords, predictions, runs, mlPosts, stats, reply, auditLog, sessions, patientCalls>>

\* handleSelectPatient, after its await: the call failed.
RecordsFailed(patient) ==
  /\ patient \in newPredictionPage.loads
  /\ newPredictionPage' = [newPredictionPage EXCEPT !.error = TRUE, !.loads = @ \ {patient}]
  /\ UNCHANGED <<users, patients, clinicalRecords, predictions, runs, mlPosts, stats, reply, auditLog, sessions, patientCalls>>

\* onClick={() => setPredictionType(...)}
SetPredictionType(kind) ==
  /\ newPredictionPage.step = "select-record" /\ newPredictionPage.selectedPatient # 0
  /\ newPredictionPage' = [newPredictionPage EXCEPT !.predictionType = kind]
  /\ UNCHANGED <<users, patients, clinicalRecords, predictions, runs, mlPosts, stats, reply, auditLog, sessions, patientCalls>>

\* onClick={() => setSelectedRecord(record)} on a record of the list.
SelectRecord(record) ==
  /\ newPredictionPage.step = "select-record" /\ newPredictionPage.selectedPatient # 0
  /\ record \in newPredictionPage.clinicalRecords
  /\ newPredictionPage' = [newPredictionPage EXCEPT !.selectedRecord = Some(record)]
  /\ UNCHANGED <<users, patients, clinicalRecords, predictions, runs, mlPosts, stats, reply, auditLog, sessions, patientCalls>>

\* 'Cambiar paciente': onClick={() => setStep('select-patient')}
ChangePatient ==
  /\ newPredictionPage.step = "select-record" /\ newPredictionPage.selectedPatient # 0
  /\ newPredictionPage' = [newPredictionPage EXCEPT !.step = "select-patient"]
  /\ UNCHANGED <<users, patients, clinicalRecords, predictions, runs, mlPosts, stats, reply, auditLog, sessions, patientCalls>>

\* handlePredict, up to its await: the request is sent and reaches the
\* API as the logged-in user's.
HandlePredict(r, u) ==
  LET dto == [patientId        |-> newPredictionPage.selectedPatient,
              clinicalRecordId |-> Val(newPredictionPage.selectedRecord).id,
              predictionType   |-> newPredictionPage.predictionType]
  IN /\ newPredictionPage.step = "select-record" /\ newPredictionPage.selectedPatient # 0
     /\ IsSome(newPredictionPage.selectedRecord)
     /\ StartRun(r, u, dto)
     /\ newPredictionPage' = [newPredictionPage EXCEPT !.step = "processing", !.error = FALSE,
                             !.sent = dto, !.waiting = @ \cup {r}]
     /\ UNCHANGED <<users, patients, clinicalRecords, predictions, mlPosts, stats, reply, auditLog, sessions, patientCalls>>

\* handlePredict, after its await: the Prediction has arrived.
PredictionArrived(r) ==
  /\ r \in newPredictionPage.waiting
  /\ runs[r].pc = "done"
  /\ newPredictionPage' = [newPredictionPage EXCEPT !.result = runs[r].resultId, !.step = "result",
                          !.waiting = @ \ {r}]
  /\ UNCHANGED <<users, patients, clinicalRecords, predictions, runs, mlPosts, stats, reply, auditLog, sessions, patientCalls>>

\* handlePredict, after its await: the request failed.
PredictionRejected(r) ==
  /\ r \in newPredictionPage.waiting
  /\ runs[r].pc = "failed"
  /\ newPredictionPage' = [newPredictionPage EXCEPT !.error = TRUE, !.step = "select-record",
                          !.waiting = @ \ {r}]
  /\ UNCHANGED <<users, patients, clinicalRecords, predictions, runs, mlPosts, stats, reply, auditLog, sessions, patientCalls>>

\* 'Nueva Prediccion': setResult(null); setSelectedRecord(null);
\* setStep('select-record')
NewPrediction ==
  /\ newPredictionPage.step = "result" /\ newPredictionPage.result # 0
  /\ newPredictionPage' = [newPredictionPage EXCEPT !.result = 0, !.selectedRecord = None, !.step = "select-record"]
  /\ UNCHANGED <<users, patients, clinicalRecords, predictions, runs, mlPosts, stats, reply, auditLog, sessions, patientCalls>>

\* ------------------------------------------------------------- Next
UserIds == 1..Len(users)

\* The seeded accounts (first and second row of the seed data).
AdminId  == 1
DoctorId == 2

\* Prediction orchestration: concurrent requestPrediction runs over a
\* growing set of patients and clinical records, against every answer the
\* inference service can give.  Requests come from the seeded doctor.
Next ==
  \/ \E r \in Runs, dto \in RequestDtos : RequestPrediction(r, DoctorId, dto)
  \/ \E r \in Runs : FindPatient(r)
  \/ \E r \in Runs : FindRecord(r)
  \/ \E r \in Runs, payload \in MLPayloads : MLRespond(r, payload)
  \/ \E r \in Runs, err \in MLFailures : MLFail(r, err)
  \/ \E r \in Runs : SavePrediction(r)
  \/ \E u \in UserIds : CreatePatient(u, "HGR-45")
  \/ \E u \in UserIds, p \in PatientIds : CreateClinicalRecord(u, p, TypicalInput)

Spec == Init /\ [][Next]_vars

\* The whole API surface: every state-changing endpoint of the prediction,
\* patient, clinical-record and user controllers, by any permitted user,
\* with a reduced set of requests and inference answers.
ApiDtos ==
  { dto \in RequestDtos : dto.predictionType = "READMISSION_RISK" }

ApiPayloads == RoundedPayloads \cup { Payload(DecimalLimit, "HIGH") }

ApiFailures == { err \in MLFailures : err.code = "ECONNREFUSED" }

NextApi ==
  \/ \E r \in Runs, dto \in ApiDtos : RequestPrediction(r, DoctorId, dto)
  \/ \E r \in Runs : FindPatient(r)
  \/ \E r \in Runs : FindRecord(r)
  \/ \E r \in Runs, payload \in ApiPayloads : MLRespond(r, payload)
  \/ \E r \in Runs, err \in ApiFailures : MLFail(r, err)
  \/ \E r \in Runs : SavePrediction(r)
  \/ \E u \in UserIds, h \in HospitalIds : CreatePatient(u, h)
  \/ \E u \in UserIds, id \in PatientIds, h \in HospitalIds : UpdatePatient(u, id, h)
  \/ \E u \in UserIds, p \in PatientIds : CreateClinicalRecord(u, p, TypicalInput)
  \/ \E a \in UserIds, id \in UserIds : Deactivate(a, id)
  \/ \E a \in UserIds, id \in UserIds : Activate(a, id)

SpecApi == Init /\ [][NextApi]_vars

\* The audit view: requests by either seeded staff account, scores with
\* more than four decimals, answers without an importance map, callers
\* that disconnect.
AuditDtos ==
  { dto \in RequestDtos :
      dto.predictionType = "DIABETES_RISK" /\ dto.patientId \in 1..MaxPatients }

AuditPayloads ==
  { Payload(82346, "HIGH"),
    [Payload(25000, "LOW") EXCEPT !.feature_importance = None] }

NextAudit ==
  \/ \E r \in Runs, u \in UserIds, dto \in AuditDtos : RequestPrediction(r, u, dto)
  \/ \E r \in Runs : FindPatient(r)
  \/ \E r \in Runs : FindRecord(r)
  \/ \E r \in Runs, payload \in AuditPayloads : MLRespond(r, payload)
  \/ \E r \in Runs : MLFail(r, TimeoutError)
  \/ \E r \in Runs : SavePrediction(r)
  \/ \E r \in Runs : Disconnect(r)
  \/ CreatePatient(DoctorId, "HGR-45")
  \/ \E p \in PatientIds : CreateClinicalRecord(DoctorId, p, TypicalInput)

SpecAudit == Init /\ [][NextAudit]_vars

\* The clinical-record view: records posted with different measurements,
\* with and without the id of a stored record, patients created and
\* updated, and predictions requested on the records.
RecordDtos ==
  { dto \in RequestDtos :
      dto.predictionType = "READMISSION_RISK" /\ dto.patientId \in 1..MaxPatients }

NextRecords ==
  \/ \E r \in Runs, dto \in RecordDtos : RequestPrediction(r, DoctorId, dto)
  \/ \E r \in Runs : FindPatient(r)
  \/ \E r \in Runs : FindRecord(r)
  \/ \E r \in Runs : MLRespond(r, Payload(82000, "HIGH"))
  \/ \E r \in Runs : SavePrediction(r)
  \/ CreatePatient(DoctorId, "HGR-45")
  \/ \E id \in PatientIds : UpdatePatient(DoctorId, id, "HGR-46")
  \/ \E p \in PatientIds, input \in ClinicalInputs :
        CreateClinicalRecord(DoctorId, p, input)
  \/ \E p \in PatientIds, id \in RecordIds :
        CreateClinicalRecord(DoctorId, p, WithId(SparseInput, id))

SpecRecords == Init /\ [][NextRecords]_vars

\* The feature mapping on its own: one patient with one stored clinical
\* record whose optional measurements are each absent, zero or positive,
\* and one request that maps it, posts it and stores the snapshot.
OptionalValues(v) == { None, Some(0), Some(v) }

FeatureInputs ==
  { [base EXCEPT !.bmi = a, !.bloodPressureSystolic = b,
                 !.bloodPressureDiastolic = c, !.glucoseLevel = d,
                 !.cholesterol = e, !.hba1c = f, !.lastStayDuration = g] :
      base \in ClinicalInputs,
      a \in OptionalValues(31),  b \in OptionalValues(150),
      c \in OptionalValues(95),  d \in OptionalValues(180),
      e \in OptionalValues(210), f \in OptionalValues(6),
      g \in OptionalValues(5) }

FirstRun == 1

FeatureDto ==
  [patientId |-> 1, clinicalRecordId |-> 1, predictionType |-> "READMISSION_RISK"]

InitFeatures ==
  /\ users = SeedUsers
  /\ patients = << NewPatient("HGR-45", None) >>
  /\ clinicalRecords \in { << NewRecord(1, input) >> : input \in FeatureInputs }
  /\ predictions = <<>>
  /\ runs = [r \in Runs |-> IdleRun]
  /\ mlPosts = [r \in Runs |-> 0]
  /\ stats = IdleStats
  /\ reply = NoReply
  /\ auditLog = <<>>
  /\ sessions = NoSessions
  /\ newPredictionPage = NoPage
  /\ patientCalls = {}

NextFeatures ==
  \/ RequestPrediction(FirstRun, DoctorId, FeatureDto)
  \/ FindPatient(FirstRun)
  \/ FindRecord(FirstRun)
  \/ MLRespond(FirstRun, Payload(25000, "LOW"))
  \/ SavePrediction(FirstRun)

SpecFeatures == InitFeatures /\ [][NextFeatures]_vars

\* Progress of a run: the database answers every query, the inference
\* service may stay silent for ever, and the request timer fires once it
\* is armed.
LivePayloads == { Payload(25000, "LOW"), [Payload(82000, "HIGH") EXCEPT !.risk_score = None] }

NextLive ==
  \/ \E r \in Runs, dto \in AuditDtos : RequestPrediction(r, DoctorId, dto)
  \/ \E r \in Runs : FindPatient(r)
  \/ \E r \in Runs : FindRecord(r)
  \/ \E r \in Runs, payload \in LivePayloads : MLRespond(r, payload)
  \/ \E r \in Runs : MLTimeout(r)
  \/ \E r \in Runs : SavePrediction(r)
  \/ CreatePatient(DoctorId, "HGR-45")
  \/ \E p \in PatientIds : CreateClinicalRecord(DoctorId, p, TypicalInput)

Fairness ==
  \A r \in Runs :
     /\ WF_vars(FindPatient(r))
     /\ WF_vars(FindRecord(r))
     /\ WF_vars(MLTimeout(r))
     /\ WF_vars(SavePrediction(r))

SpecLive == Init /\ [][NextLive]_vars /\ Fairness

\* The statistics view: a store that already holds Predictions, runs that
\* add to it, and the dashboard query reading it in five steps.
SeededRows == 2

SeedRow(level, kind, score) ==
  [ id               |-> 0,
    patientId        |-> 1,
    clinicalRecordId |-> 1,
    predictionType   |-> kind,
    riskScore        |-> score,
    riskLevel        |-> level,
    modelVersion     |-> "1.0.0",
    modelAlgorithm   |-> "logistic_regression",
    featuresUsed     |-> prepareFeatures(NewRecord(1, TypicalInput)),
    featureImportance |-> Some(Importance),
    requestedById    |-> DoctorId ]

SeedRows ==
  { SeedRow("LOW", "READMISSION_RISK", 25000),
    SeedRow("HIGH", "READMISSION_RISK", 82000),
    SeedRow("HIGH", "DIABETES_RISK", 82000),
    SeedRow("MEDIUM", "DIABETES_RISK", 50000) }

\* Tables of up to SeededRows stored Predictions, ids in insertion order.
SeedTables ==
  UNION { { [i \in 1..n |-> [t[i] EXCEPT !.id = i]] : t \in [1..n -> SeedRows] } :
          n \in 0..SeededRows }

StatsDtos ==
  { [patientId |-> 1, clinicalRecordId |-> 1, predictionType |-> k] : k \in PredictionTypes }

StatsPayloads == { Payload(25000, "LOW"), Payload(82000, "HIGH") }

InitStats ==
  /\ users = SeedUsers
  /\ patients = << NewPatient("HGR-45", None) >>
  /\ clinicalRecords = << NewRecord(1, TypicalInput) >>
  /\ predictions \in SeedTables
  /\ runs = [r \in Runs |-> IdleRun]
  /\ mlPosts = [r \in Runs |-> 0]
  /\ stats = IdleStats
  /\ reply = NoReply
  /\ auditLog = <<>>
  /\ sessions = NoSessions
  /\ newPredictionPage = NoPage
  /\ patientCalls = {}

NextStats ==
  \/ \E r \in Runs, dto \in StatsDtos : RequestPrediction(r, DoctorId, dto)
  \/ \E r \in Runs : FindPatient(r)
  \/ \E r \in Runs : FindRecord(r)
  \/ \E r \in Runs, payload \in StatsPayloads : MLRespond(r, payload)
  \/ \E r \in Runs : SavePrediction(r)
  \/ GetStatistics(AdminId)
  \/ StatsCount
  \/ StatsByRiskLevel
  \/ StatsByType
  \/ StatsRecent
  \/ StatsHighRisk

SpecStats == InitStats /\ [][NextStats]_vars

\* Account management: a database created without the seed rows or with
\* them, the public bootstrap endpoint, and the administrator's endpoints.
InitAuth ==
  /\ users \in {<<>>, SeedUsers}
  /\ patients = <<>>
  /\ clinicalRecords = <<>>
  /\ predictions = <<>>
  /\ runs = [r \in Runs |-> IdleRun]
  /\ mlPosts = [r \in Runs |-> 0]
  /\ stats = IdleStats
  /\ reply = NoReply
  /\ auditLog = <<>>
  /\ sessions = NoSessions
  /\ newPredictionPage = NoPage
  /\ patientCalls = {}

NextAuth ==
  \/ \E email \in RegisterEmails : RegisterInitial(email)
  \/ \E a \in UserIds, email \in RegisterEmails, role \in UserRoles \cup {NULL} :
       Register(a, email, role)
  \/ \E a \in UserIds, id \in UserIds : Deactivate(a, id)
  \/ \E a \in UserIds, id \in UserIds : Activate(a, id)

SpecAuth == InitAuth /\ [][NextAuth]_vars

\* The read endpoints: two patients with one clinical record each, a store
\* that may already hold Predictions of the first patient, runs that add to
\* it, and the three queries over it.
ReadSeeds ==
  { t \in SeedTables :
      \A i \in DOMAIN t : t[i].riskLevel = "LOW" /\ t[i].predictionType = "READMISSION_RISK" }

ReadDtos ==
  { dto \in RequestDtos :
      /\ dto.predictionType = "READMISSION_RISK"
      /\ dto.patientId \in 1..2
      /\ dto.clinicalRecordId \in 1..2 }

ReadPayloads == { Payload(82346, "HIGH"), Payload(25000, "LOW") }

Pages  == 0..3
Limits == {-1, 0, 1, 2, 101}

InitReads ==
  /\ users = SeedUsers
  /\ patients = << NewPatient("HGR-45", None), NewPatient("HGR-46", None) >>
  /\ clinicalRecords = << NewRecord(1, TypicalInput), NewRecord(2, SparseInput) >>
  /\ predictions \in ReadSeeds
  /\ runs = [r \in Runs |-> IdleRun]
  /\ mlPosts = [r \in Runs |-> 0]
  /\ stats = IdleStats
  /\ reply = NoReply
  /\ auditLog = <<>>
  /\ sessions = NoSessions
  /\ newPredictionPage = NoPage
  /\ patientCalls = {}

NextReads ==
  \/ \E r \in Runs, dto \in ReadDtos : RequestPrediction(r, DoctorId, dto)
  \/ \E r \in Runs : FindPatient(r)
  \/ \E r \in Runs : FindRecord(r)
  \/ \E r \in Runs, payload \in ReadPayloads : MLRespond(r, payload)
  \/ \E r \in Runs : SavePrediction(r)
  \/ \E id \in 1..(MaxRuns + SeededRows + 1) : FindById(DoctorId, id)
  \/ \E patientId \in 1..3 : GetPatientHistory(DoctorId, patientId)
  \/ \E page \in Pages, limit \in Limits : FindAll(DoctorId, page, limit)

SpecReads == InitReads /\ [][NextReads]_vars

\* Sessions: logins, tokens, an administrator switching accounts off and on,
\* and prediction requests that carry a token.
SessionDto == [patientId |-> 1, clinicalRecordId |-> 1, predictionType |-> "READMISSION_RISK"]

InitSessions ==
  /\ users = SeedUsers
  /\ patients = << NewPatient("HGR-45", None) >>
  /\ clinicalRecords = << NewRecord(1, TypicalInput) >>
  /\ predictions = <<>>
  /\ runs = [r \in Runs |-> IdleRun]
  /\ mlPosts = [r \in Runs |-> 0]
  /\ stats = IdleStats
  /\ reply = NoReply
  /\ auditLog = <<>>
  /\ sessions = NoSessions
  /\ newPredictionPage = NoPage
  /\ patientCalls = {}

NextSessions ==
  \/ \E email \in LoginEmails, passwordValid \in BOOLEAN : LoginFind(email, passwordValid)
  \/ \E p \in sessions.pending : LoginFinish(p)
  \/ \E u \in UserIds : TokenExpires(u)
  \/ \E a \in UserIds, id \in UserIds : Bearer(a) /\ Deactivate(a, id)
  \/ \E a \in UserIds, id \in UserIds : Bearer(a) /\ Activate(a, id)
  \/ \E r \in Runs, u \in UserIds : Bearer(u) /\ RequestPrediction(r, u, SessionDto)
  \/ \E r \in Runs : FindPatient(r)
  \/ \E r \in Runs : FindRecord(r)
  \/ \E r \in Runs : MLRespond(r, Payload(82000, "HIGH"))
  \/ \E r \in Runs : SavePrediction(r)

SpecSessions == InitSessions /\ [][NextSessions]_vars

\* The prediction page of one logged-in doctor against the API: two
\* patients with one clinical record each.
InitPage ==
  /\ users = SeedUsers
  /\ patients = << NewPatient("HGR-45", None), NewPatient("HGR-46", None) >>
  /\ clinicalRecords = << NewRecord(1, TypicalInput), NewRecord(2, SparseInput) >>
  /\ predictions = <<>>
  /\ runs = [r \in Runs |-> IdleRun]
  /\ mlPosts = [r \in Runs |-> 0]
  /\ stats = IdleStats
  /\ reply = NoReply
  /\ auditLog = <<>>
  /\ sessions = NoSessions
  /\ newPredictionPage = NoPage
  /\ patientCalls = {}

NextPage ==
  \/ HandleSearch(1..2)
  \/ \E patient \in 1..2 : HandleSelectPatient(patient)
  \/ \E patient \in 1..2 : RecordsLoaded(patient)
  \/ \E patient \in 1..2 : RecordsFailed(patient)
  \/ \E kind \in PredictionTypes : SetPredictionType(kind)
  \/ \E record \in newPredictionPage.clinicalRecords : SelectRecord(record)
  \/ ChangePatient
  \/ \E r \in Runs : HandlePredict(r, DoctorId)
  \/ \E r \in Runs : PredictionArrived(r)
  \/ \E r \in Runs : PredictionRejected(r)
  \/ NewPrediction
  \/ \E r \in Runs : FindPatient(r)
  \/ \E r \in Runs : FindRecord(r)
  \/ \E r \in Runs : MLRespond(r, Payload(82000, "HIGH"))
  \/ \E r \in Runs : SavePrediction(r)

SpecPage == InitPage /\ [][NextPage]_vars

\* Patient registration: create and update calls that name a CURP, taken
\* apart at their awaits, next to creations without one.
InitPatients ==
  /\ users = SeedUsers
  /\ patients = <<>>
  /\ clinicalRecords = <<>>
  /\ predictions = <<>>
  /\ runs = [r \in Runs |-> IdleRun]
  /\ mlPosts = [r \in Runs |-> 0]
  /\ stats = IdleStats
  /\ reply = NoReply
  /\ auditLog = <<>>
  /\ sessions = NoSessions
  /\ newPredictionPage = NoPage
  /\ patientCalls = {}

NextPatients ==
  \/ \E curp \in Curps : CreateCheck(DoctorId, "HGR-45", curp)
  \/ \E c \in patientCalls : CreateSave(c)
  \/ \E id \in 1..(MaxPatients + 1), curp \in {None} \cup { Some(k) : k \in Curps },
        bodyId \in {None} \cup { Some(i) : i \in 1..Len(patients) } :
       UpdateCheck(DoctorId, id, curp, bodyId)
  \/ \E c \in patientCalls : UpdateSave(c)
  \/ CreatePatient(DoctorId, "HGR-46")

SpecPatients == InitPatients /\ [][NextPatients]_vars

\* =================================================================
\* Properties
\* =================================================================
Range(seq) == { seq[i] : i \in DOMAIN seq }

StoredIds == { predictions[i].id : i \in DOMAIN predictions }

\* A patient row with this id is in the patients table.
PatientStored(id) == \E i \in DOMAIN patients : i = id

\* The clinical record with this id is stored and owned by this patient.
RecordBelongs(id, patientId) ==
  \E i \in DOMAIN clinicalRecords :
     i = id /\ clinicalRecords[i].patientId = patientId

\* An answer of the inference service that honours its contract.
ValidResponses ==
  { p \in WellFormedPayloads :
      InUnitInterval(Val(p.risk_score)) /\ p.risk_level = RiskBand(Val(p.risk_score)) }

\* C1: every stored Prediction's riskLevel is the band of its own stored
\* riskScore under the thresholds 0.30 / 0.70, whatever band the inference
\* service returned.
C1_StoredBandMatchesScore ==
  \A i \in DOMAIN predictions :
     predictions[i].riskLevel = RiskBand(predictions[i].riskScore)

\* C2: a risk_score outside [0,1] is never stored: no Prediction row holds
\* a score below 0 or above 1.
C2_NoOutOfRangeScoreStored ==
  \A i \in DOMAIN predictions : InUnitInterval(predictions[i].riskScore)

\* C3: when the clinical record named by the request is absent or owned by
\* another patient at the record lookup, the run fails with NotFound,
\* inserts nothing and has sent no POST /predict; a run that got past the
\* lookup names a record of its own patient.
C3_Step ==
  \A r \in Runs :
     ( /\ runs[r].pc = "findRecord"
       /\ runs'[r] # runs[r]
       /\ ~RecordBelongs(runs[r].dto.clinicalRecordId, runs[r].dto.patientId) )
     => /\ runs'[r].pc = "failed"
        /\ runs'[r].error = "NotFoundException"
        /\ predictions' = predictions
        /\ mlPosts' = mlPosts
        /\ mlPosts[r] = 0

C3_Inv ==
  \A r \in Runs :
     runs[r].pc \in {"awaitML", "saving", "done"}
       => RecordBelongs(runs[r].dto.clinicalRecordId, runs[r].dto.patientId)

C3_RecordNotFound == []C3_Inv /\ [][C3_Step]_vars

\* C3 witness: a run for an existing patient failed with NotFound at the
\* record lookup, and the record it named is owned by another patient.
C3_Witness ==
  \E r \in Runs :
     /\ runs[r].pc = "failed"
     /\ runs[r].error = "NotFoundException"
     /\ runs[r].trace = <<"patientFound", "recordMissing">>
     /\ PatientStored(runs[r].dto.patientId)
     /\ \E p \in DOMAIN patients :
           p # runs[r].dto.patientId /\ RecordBelongs(runs[r].dto.clinicalRecordId, p)
     /\ predictions = <<>>

\* C4: when the request's patientId names no stored patient at the patient
\* lookup, the run fails with NotFound right there: no record lookup, no
\* POST /predict, no change of the Prediction store.
C4_Step ==
  \A r \in Runs :
     ( /\ runs[r].pc = "findPatient"
       /\ runs'[r] # runs[r]
       /\ ~PatientStored(runs[r].dto.patientId) )
     => /\ runs'[r].pc = "failed"
        /\ runs'[r].error = "NotFoundException"
        /\ runs'[r].trace = <<"patientMissing">>
        /\ predictions' = predictions
        /\ mlPosts' = mlPosts

C4_Inv ==
  \A r \in Runs :
     (runs[r].pc = "failed" /\ "patientMissing" \in Range(runs[r].trace))
       => /\ mlPosts[r] = 0
          /\ runs[r].trace = <<"patientMissing">>
          /\ runs[r].resultId = 0

C4_PatientNotFound == []C4_Inv /\ [][C4_Step]_vars

\* C4 witness: a run naming an unknown patient has failed with NotFound
\* while another run's Prediction is in the store.
C4_Witness ==
  \E r \in Runs :
     /\ runs[r].pc = "failed"
     /\ runs[r].error = "NotFoundException"
     /\ runs[r].trace = <<"patientMissing">>
     /\ ~PatientStored(runs[r].dto.patientId)
     /\ Len(predictions) = 1

\* C5: in every run the POST /predict comes after the patient lookup and
\* the record-ownership check of that run succeeded, and the insert comes
\* after that run's inference response.
C5_StepOrder ==
  \A r \in Runs :
     LET t == runs[r].trace IN
     /\ \A i \in DOMAIN t :
          t[i] = "post" => i = 3 /\ t[1] = "patientFound" /\ t[2] = "recordFound"
     /\ \A i \in DOMAIN t :
          t[i] = "response" => i > 1 /\ t[i - 1] = "post"
     /\ \A i \in DOMAIN t :
          t[i] = "insert" => i > 1 /\ t[i - 1] = "response"
     /\ mlPosts[r] > 0 => "post" \in Range(t)
     /\ runs[r].resultId # 0 => "insert" \in Range(t)
     /\ runs[r].pc \in {"awaitML", "saving"} => mlPosts[r] = 1

\* C5 witness: a run went through all steps and its Prediction is stored.
C5_Witness ==
  \E r \in Runs :
     /\ runs[r].trace = <<"patientFound", "recordFound", "post", "response", "insert">>
     /\ runs[r].resultId \in StoredIds

\* C6: a run whose inference call fails (connection refused, timeout,
\* non-success status, any other error of the call) ends with
\* ServiceUnavailableException; neither the failing step nor any earlier
\* step of that run changes the Prediction store, and such a run never
\* inserts.
C6_Step ==
  \A r \in Runs :
     /\ (runs[r].pc = "awaitML" /\ runs'[r].pc = "failed")
          => /\ runs'[r].error = "ServiceUnavailableException"
             /\ predictions' = predictions
     /\ (runs'[r] # runs[r] /\ runs'[r].pc # "done")
          => predictions' = predictions

C6_Inv ==
  \A r \in Runs :
     "mlError" \in Range(runs[r].trace)
       => /\ runs[r].pc = "failed"
          /\ runs[r].error = "ServiceUnavailableException"
          /\ runs[r].resultId = 0
          /\ "insert" \notin Range(runs[r].trace)

C7_MalformedIsUnavailable ==
  [][ \A r \in Runs :
        ( /\ runs[r].pc = "saving"
          /\ runs[r].mlResponse \in MalformedPayloads
          /\ runs'[r] # runs[r] )
        => /\ runs'[r].pc = "failed"
           /\ runs'[r].error = "ServiceUnavailableException"
           /\ predictions' = predictions ]_vars

\* C8: the number of stored Predictions equals the number of runs that
\* returned successfully; each successful run owns exactly one stored row
\* and a failed run owns none.
C8_OneRecordPerSuccess ==
  /\ Len(predictions) = Cardinality({ r \in Runs : runs[r].pc = "done" })
  /\ \A r \in Runs : runs[r].pc = "done" => runs[r].resultId \in StoredIds
  /\ \A r, q \in Runs :
        (r # q /\ runs[r].pc = "done" /\ runs[q].pc = "done")
          => runs[r].resultId # runs[q].resultId
  /\ \A r \in Runs : runs[r].pc = "failed" => runs[r].resultId = 0
  /\ Cardinality(StoredIds) = Len(predictions)

\* C8 witness: one run returned a Prediction and another failed after its
\* inference call; one row is stored.
C8_Witness ==
  \E r, q \in Runs :
     /\ runs[r].pc = "done"
     /\ runs[q].pc = "failed"
     /\ "post" \in Range(runs[q].trace)
     /\ Len(predictions) = 1

\* C9: the Prediction store is append-only under every endpoint: a step
\* keeps every stored row, at its position, with all fields unchanged.
C9_AppendOnly ==
  [][ /\ Len(predictions') >= Len(predictions)
      /\ \A i \in DOMAIN predictions : predictions'[i] = predictions[i] ]_vars

\* C9 witness: both Predictions are stored, a patient has been updated and
\* the requesting user has been deactivated.
C9_Witness ==
  /\ Len(predictions) = MaxRuns
  /\ Len(clinicalRecords) = MaxRecords
  /\ \E i \in DOMAIN patients : patients[i].hospitalId = "HGR-46"
  /\ ~users[DoctorId].isActive

\* C10: a run holding a valid inference answer always inserts a new row
\* with a fresh id, whatever rows are already stored; two finished runs
\* for the same (patient, record, kind) own two different rows.
C10_Step ==
  \A r \in Runs :
     ( /\ runs[r].pc = "saving"
       /\ runs[r].mlResponse \in ValidResponses
       /\ runs'[r] # runs[r] )
     => /\ runs'[r].pc = "done"
        /\ Len(predictions') = Len(predictions) + 1
        /\ predictions'[Len(predictions')].id \notin StoredIds
        /\ runs'[r].resultId = predictions'[Len(predictions')].id

C10_Inv ==
  \A r, q \in Runs :
     (r # q /\ runs[r].pc = "done" /\ runs[q].pc = "done" /\ runs[r].dto = runs[q].dto)
       => /\ runs[r].resultId # runs[q].resultId
          /\ {runs[r].resultId, runs[q].resultId} \subseteq StoredIds

C10_NoDeduplication == []C10_Inv /\ [][C10_Step]_vars

\* C10 witness: two runs for the same tuple both returned, and the run
\* that started later inserted first, so the two overlapped.
C10_Witness ==
  \E r, q \in Runs :
     /\ r < q
     /\ runs[r].pc = "done" /\ runs[q].pc = "done"
     /\ runs[r].dto = runs[q].dto
     /\ runs[q].resultId < runs[r].resultId

\* C11: every run sends at most one POST /predict; the step on which the
\* request fails ends the run in an error and sends nothing, and a run
\* that has ended never sends again.
C11_Step ==
  \A r \in Runs :
     /\ (runs[r].pc = "awaitML" /\ runs'[r] # runs[r])
          => /\ mlPosts' = mlPosts
             /\ runs'[r].pc \in {"saving", "failed"}
     /\ runs[r].pc \in {"done", "failed"}
          => /\ runs'[r] = runs[r]
             /\ mlPosts'[r] = mlPosts[r]

C11_Inv ==
  \A r \in Runs :
     /\ mlPosts[r] <= 1
     /\ Cardinality({ i \in DOMAIN runs[r].trace : runs[r].trace[i] = "post" }) = mlPosts[r]

C11_SinglePost == []C11_Inv /\ [][C11_Step]_vars

\* C11 witness: a run ended on a timed-out inference request, having sent
\* exactly one POST /predict.
C11_Witness ==
  \E r \in Runs :
     /\ runs[r].pc = "failed"
     /\ runs[r].message = "ML Service request timed out"
     /\ mlPosts[r] = 1

\* C12: the Prediction a successful run persists carries the run's
\* patientId, clinicalRecordId and kind, the requesting user, the risk
\* score, model version, model algorithm and importance map of this run's
\* inference answer, and as featuresUsed the features this run posted.
C12_PersistedCarriesRun ==
  [][ \A r \in Runs :
        (runs[r].pc = "saving" /\ runs'[r].pc = "done")
        => LET row == predictions'[Len(predictions')]
               ml  == runs[r].mlResponse
           IN /\ row.id = runs'[r].resultId
              /\ row.patientId = runs[r].dto.patientId
              /\ row.clinicalRecordId = runs[r].dto.clinicalRecordId
              /\ row.predictionType = runs[r].dto.predictionType
              /\ row.requestedById = runs[r].userId
              /\ row.riskScore = Val(ml.risk_score)
              /\ row.modelVersion = ml.model_version
              /\ row.modelAlgorithm = ml.model_algorithm
              /\ row.featureImportance = ml.feature_importance
              /\ row.featuresUsed = runs[r].features ]_vars

\* C13: for every stored Prediction, the feature mapping applied to the
\* clinical record it references gives exactly its featuresUsed.
C13_FeaturesReproducible ==
  \A i \in DOMAIN predictions :
     /\ predictions[i].clinicalRecordId \in DOMAIN clinicalRecords
     /\ prepareFeatures(clinicalRecords[predictions[i].clinicalRecordId])
          = predictions[i].featuresUsed

\* C15: a run whose caller disconnected before the insert completed
\* persists no Prediction.
C15_CancelledRunPersistsNothing ==
  \A r \in Runs :
     runs[r].cancelled
       => /\ runs[r].pc # "done"
          /\ runs[r].resultId \notin StoredIds

\* C19: a stored clinical record keeps its measurement values and its
\* owning patientId under every step, and is never removed.
C19_RecordImmutable ==
  [][ \A i \in DOMAIN clinicalRecords :
        /\ i \in DOMAIN clinicalRecords'
        /\ clinicalRecords'[i] = clinicalRecords[i] ]_vars

\* C14: the feature vector of a clinical record has the 13 expected keys;
\* an optional measurement that is absent maps to an explicit null, one
\* that is present maps to its own value (0 stays 0), and age, previous
\* admissions, the three booleans and smoking status pass through.
FeatureKeys ==
  { "age", "bmi", "blood_pressure_systolic", "blood_pressure_diastolic",
    "glucose_level", "cholesterol", "hba1c", "previous_admissions",
    "last_stay_duration", "has_diabetes", "has_hypertension",
    "has_heart_disease", "smoking_status" }

OptionalMapped(measured, feature) ==
  IF IsSome(measured)
  THEN IsSome(feature) /\ Val(feature) = Val(measured)
  ELSE feature = None

MapsRecord(rec, f) ==
  /\ DOMAIN f = FeatureKeys
  /\ OptionalMapped(rec.bmi, f.bmi)
  /\ OptionalMapped(rec.bloodPressureSystolic, f.blood_pressure_systolic)
  /\ OptionalMapped(rec.bloodPressureDiastolic, f.blood_pressure_diastolic)
  /\ OptionalMapped(rec.glucoseLevel, f.glucose_level)
  /\ OptionalMapped(rec.cholesterol, f.cholesterol)
  /\ OptionalMapped(rec.hba1c, f.hba1c)
  /\ OptionalMapped(rec.lastStayDuration, f.last_stay_duration)
  /\ f.age = rec.age
  /\ f.previous_admissions = rec.previousAdmissions
  /\ f.has_diabetes = rec.hasDiabetes
  /\ f.has_hypertension = rec.hasHypertension
  /\ f.has_heart_disease = rec.hasHeartDisease
  /\ f.smoking_status = rec.smokingStatus

C14_FeatureVector ==
  /\ \A i \in DOMAIN clinicalRecords :
        MapsRecord(clinicalRecords[i], prepareFeatures(clinicalRecords[i]))
  /\ \A r \in Runs :
        runs[r].pc \in {"awaitML", "saving"}
          => MapsRecord(clinicalRecords[runs[r].dto.clinicalRecordId], runs[r].features)
  /\ \A i \in DOMAIN predictions :
        MapsRecord(clinicalRecords[predictions[i].clinicalRecordId],
                   predictions[i].featuresUsed)

\* C14 witness: the snapshot of a record with a measured glucose of 0, a
\* measured bmi and no cholesterol value is stored.
C14_Witness ==
  \E i \in DOMAIN predictions :
     LET rec == clinicalRecords[predictions[i].clinicalRecordId]
         f   == predictions[i].featuresUsed
     IN /\ rec.glucoseLevel = Some(0) /\ f.glucose_level = Some(0)
        /\ rec.bmi = Some(31)         /\ f.bmi = Some(31)
        /\ rec.cholesterol = None     /\ f.cholesterol = None

\* C16: every run that has started eventually ends, with a persisted
\* Prediction or with an error; a run ended by the request timeout ends
\* with ServiceUnavailableException.
C16_Inv ==
  \A r \in Runs :
     /\ runs[r].pc = "done" => runs[r].resultId \in StoredIds
     /\ runs[r].pc = "failed" => runs[r].error # NULL
     /\ "mlError" \in Range(runs[r].trace)
          => /\ runs[r].pc = "failed"
             /\ runs[r].error = "ServiceUnavailableException"

C16_Terminates ==
  /\ []C16_Inv
  /\ \A r \in Runs :
        (runs[r].pc # "idle") ~> (runs[r].pc \in {"done", "failed"})

\* C16 witness: a run was ended by the request timeout while the other
\* run is still waiting for its inference answer.
C16_Witness ==
  \E r, q \in Runs :
     /\ runs[r].pc = "failed"
     /\ runs[r].trace = <<"patientFound", "recordFound", "post", "mlError">>
     /\ runs[r].error = "ServiceUnavailableException"
     /\ runs[q].pc = "awaitML"

\* C17: when the inference service answered with a non-success status and
\* a diagnostic, the error the run ends with carries that diagnostic text.
C17_DiagnosticForwarded ==
  \A r \in Runs :
     runs[r].diagnostic # NULL
       => /\ runs[r].pc = "failed"
          /\ runs[r].message = runs[r].diagnostic

RECURSIVE ParseDecimal(_)
DigitValue(c) == CHOOSE d \in 0..9 : Digits[d + 1] = c

\* The number a decimal text denotes.
ParseDecimal(str) ==
  IF Len(str) = 1 THEN DigitValue(str[1])
  ELSE 10 * ParseDecimal(SubSeq(str, 1, Len(str) - 1)) + DigitValue(str[Len(str)])

StoredWith(field, value) == Cardinality(RowsWhere(predictions, field, value))

\* One row per value present in the store, carrying its count; none for a
\* value no stored Prediction has.
GroupedCounts(rows, field, values) ==
  /\ \A row \in rows : row[field] \in values /\ StoredWith(field, row[field]) > 0
  /\ \A v \in values :
       StoredWith(field, v) > 0 =>
         /\ Cardinality({ row \in rows : row[field] = v }) = 1
         /\ \A row \in rows : row[field] = v => ParseDecimal(row.count) = StoredWith(field, v)

\* No Prediction was inserted while the statistics call ran: the table only
\* grows, so its length still equals the first query's count.  This covers
\* every call made while no run is in progress.
QuietCall == stats.pc = "returned" /\ stats.total = Len(predictions)

\* C18: when no insert falls inside the call (in particular when no run is
\* in progress), getStatistics reports total = number of stored Predictions,
\* one count per risk band present (absent bands omitted), one count per
\* prediction kind present, and highRiskCount = number of HIGH Predictions.
C18_StatisticsMatchStore ==
  QuietCall =>
    /\ stats.total = Len(predictions)
    /\ GroupedCounts(stats.byRiskLevel, "riskLevel", RiskLevels)
    /\ GroupedCounts(stats.byType, "predictionType", PredictionTypes)
    /\ stats.highRiskCount = StoredWith("riskLevel", "HIGH")

\* Three stored Predictions with bands LOW, HIGH, HIGH, the last one written
\* by a run, no run in progress: the call reports LOW 1 and HIGH 2.
C18_Witness ==
  /\ QuietCall
  /\ \A r \in Runs : runs[r].pc \in {"idle", "done", "failed"}
  /\ \E r \in Runs : runs[r].pc = "done"
  /\ [i \in DOMAIN predictions |-> predictions[i].riskLevel] = <<"LOW", "HIGH", "HIGH">>
  /\ stats.byRiskLevel = { [riskLevel |-> "LOW", count |-> <<"1">>],
                           [riskLevel |-> "HIGH", count |-> <<"2">>] }
  /\ stats.highRiskCount = 2
  /\ stats.total = 3

\* C20: POST /auth/register-initial creates one ADMIN user when the user
\* store is empty, and creates no user, answering 409, when a user exists.
C20_RegisterInitialOnlyFirst ==
  [][ (\E email \in RegisterEmails : RegisterInitial(email))
        => IF users = <<>>
           THEN /\ Len(users') = 1
                /\ users'[1].role = "ADMIN"
                /\ reply'.status = CREATED
           ELSE /\ users' = users
                /\ reply'.status = CONFLICT ]_vars

AuditEntries(action) == { i \in DOMAIN auditLog : auditLog[i].action = action }

\* C21: every run that completes adds an audit_log entry PREDICTION_COMPLETED
\* naming the requesting user, every run that fails adds an entry
\* PREDICTION_FAILED, and the number of such entries equals the number of
\* finished runs.
C21_AuditTracksRuns ==
  /\ \A i \in DOMAIN auditLog : auditLog[i].action \in AuditActions
  /\ Cardinality(AuditEntries("PREDICTION_COMPLETED") \cup AuditEntries("PREDICTION_FAILED"))
       = Cardinality({ r \in Runs : runs[r].pc \in {"done", "failed"} })
  /\ \A r \in Runs :
       runs[r].pc = "done" =>
         \E i \in AuditEntries("PREDICTION_COMPLETED") : auditLog[i].userId = runs[r].userId
  /\ \A r \in Runs :
       runs[r].pc = "failed" => AuditEntries("PREDICTION_FAILED") # {}

\* The stored Predictions of one patient.
StoredOf(patientId) == { i \in DOMAIN predictions : predictions[i].patientId = patientId }

\* C22: getPatientHistory(patientId) fails with NotFound when the patient
\* does not exist; otherwise it returns exactly the stored Predictions of
\* that patient, each once, none of another patient, newest first.
C22_PatientHistory ==
  [][ \A patientId \in 1..3 :
        GetPatientHistory(DoctorId, patientId) =>
          IF patientId \notin 1..Len(patients)
          THEN reply'.status = NOT_FOUND /\ reply'.data = <<>>
          ELSE /\ reply'.status = OK
               /\ Len(reply'.data) = Cardinality(StoredOf(patientId))
               /\ \A k \in DOMAIN reply'.data :
                    /\ reply'.data[k].patientId = patientId
                    /\ \E i \in StoredOf(patientId) :
                         reply'.data[k] = ReadRow(predictions[i])
               /\ \A j, k \in DOMAIN reply'.data :
                    j < k => reply'.data[j].id > reply'.data[k].id ]_vars

\* The first patient's history was read from a store that also holds a
\* Prediction of the second patient: two rows, the newer one first.
C22_Witness ==
  /\ reply.op = "getPatientHistory"
  /\ reply.arg.id = 1
  /\ reply.status = OK
  /\ Len(reply.data) = 2
  /\ reply.data[1].id > reply.data[2].id
  /\ Len(predictions) = 3
  /\ \E i \in DOMAIN predictions : predictions[i].patientId = 2

\* C23: for every integer page and limit GET /predictions accepts, the
\* response holds at most min(limit, 100) predictions, namely those at
\* positions (page-1)*limit .. page*limit-1 of the newest-first ordering,
\* and meta.totalPages is a finite non-negative integer equal to
\* ceil(total/limit).
C23_Pagination ==
  [][ \A page \in Pages, limit \in Limits :
        FindAll(DoctorId, page, limit) =>
          LET lim   == IF limit < MaxLimit THEN limit ELSE MaxLimit
              total == Len(predictions)
              first == (page - 1) * lim
              pages == reply'.meta.totalPages
          IN /\ reply'.status = OK
             /\ Len(reply'.data) <= lim
             /\ Len(reply'.data)
                  = Cardinality({ q \in (first + 1)..(first + lim) : q \in 1..total })
             /\ \A k \in DOMAIN reply'.data :
                  /\ first + k \in 1..total
                  /\ reply'.data[k] = ReadRow(predictions[total + 1 - (first + k)])
             /\ pages.kind = "number"
             /\ pages.n >= 0
             /\ pages.n * lim >= total
             /\ (pages.n - 1) * lim < total ]_vars

\* The score a NUMERIC(5,4) text denotes, in units of 10^-5.
ParseDecimalText(str) ==
  LET neg == str[1] = "-"
      t   == IF neg THEN Tail(str) ELSE str
      a   == DigitValue(t[1]) * 10000 + DigitValue(t[3]) * 1000
               + DigitValue(t[4]) * 100 + DigitValue(t[5]) * 10 + DigitValue(t[6])
  IN IF neg THEN 0 - (a * 10) ELSE a * 10

\* C24: for every Prediction a successful requestPrediction returned, a
\* later findById with its id returns a Prediction with the same patientId,
\* clinicalRecordId, kind, riskScore, riskLevel, model identifiers,
\* featuresUsed and requestedById; findById with an id no stored
\* Prediction has fails with NotFound.
C24_RoundTrip ==
  [][ \A id \in 1..(MaxRuns + SeededRows + 1) :
        FindById(DoctorId, id) =>
          /\ (\A i \in DOMAIN predictions : predictions[i].id # id)
               => reply'.status = NOT_FOUND
          /\ \A r \in Runs :
               (runs[r].pc = "done" /\ runs[r].resultId = id) =>
                 LET sent == Val(runs[r].returned)
                     read == reply'.data[1]
                 IN /\ reply'.status = OK
                    /\ read.id = sent.id
                    /\ read.patientId = sent.patientId
                    /\ read.clinicalRecordId = sent.clinicalRecordId
                    /\ read.predictionType = sent.predictionType
                    /\ ParseDecimalText(read.riskScore) = sent.riskScore
                    /\ read.riskLevel = sent.riskLevel
                    /\ read.modelVersion = sent.modelVersion
                    /\ read.modelAlgorithm = sent.modelAlgorithm
                    /\ read.featuresUsed = sent.featuresUsed
                    /\ read.requestedById = sent.requestedById ]_vars

\* A login attempt for user u made while u is deactivated is refused and
\* issues nothing.
LoginRefused(u) ==
  \A email \in LoginEmails, passwordValid \in BOOLEAN :
     (LoginFind(email, passwordValid) /\ findUserByEmail(email) = u)
       => reply'.status = UNAUTHORIZED /\ sessions' = sessions

\* No request of user u is let in, with or without a token.
RequestsRejected(u) ==
  /\ \A r \in Runs : ~RequestPrediction(r, u, SessionDto)
  /\ \A r \in Runs :
       runs[r].pc = "idle" => ~(runs'[r].pc # "idle" /\ runs'[r].userId = u)

\* The Predictions this step adds for user u.
CreatedFor(u) ==
  { i \in DOMAIN predictions' : i \notin DOMAIN predictions /\ predictions'[i].requestedById = u }

\* C25 as stated: while u is deactivated every login attempt for u fails
\* with Unauthorized, every request carrying u's token is rejected, and no
\* Prediction with requestedById = u is created; once u is activated the
\* same token passes validation again.
C25_NoPredictionWhileDeactivated ==
  [][ \A u \in UserIds :
        /\ ~users[u].isActive =>
             /\ LoginRefused(u)
             /\ RequestsRejected(u)
             /\ CreatedFor(u) = {}
        /\ (~users[u].isActive /\ users'[u].isActive /\ Bearer(u)) => validate(u)' ]_vars

\* C25 amended: while u is deactivated every login attempt for u fails
\* with Unauthorized and every request carrying u's token is rejected, so a
\* Prediction with requestedById = u created in that interval comes from a
\* run that was let in before; once u is activated the same token passes
\* validation again.
C25_NoRequestWhileDeactivated ==
  [][ \A u \in UserIds :
        /\ ~users[u].isActive =>
             /\ LoginRefused(u)
             /\ RequestsRejected(u)
             /\ CreatedFor(u) # {} =>
                  \E r \in Runs : runs[r].pc = "saving" /\ runs[r].userId = u
        /\ (~users[u].isActive /\ users'[u].isActive /\ Bearer(u)) => validate(u)' ]_vars

\* The doctor holds a token, was deactivated while a run of theirs was in
\* progress, and has just been refused a login.
C25_Witness ==
  /\ ~users[DoctorId].isActive
  /\ Bearer(DoctorId)
  /\ reply.op = "login" /\ reply.email = "doctor@hospital.gob.mx"
  /\ reply.status = UNAUTHORIZED
  /\ \E r \in Runs : runs[r].userId = DoctorId /\ runs[r].pc = "saving"

\* What one register call with this request and creator must have done.
Registered(email, role, creatorRole) ==
  IF \E i \in 1..Len(users) : users[i].email = toLowerCase(email)
  THEN reply'.status = CONFLICT /\ users' = users
  ELSE IF role # NULL /\ creatorRole # "ADMIN"
  THEN reply'.status \notin {OK, CREATED} /\ users' = users
  ELSE /\ reply'.status = CREATED
       /\ Len(users') = Len(users) + 1
       /\ \A i \in 1..Len(users) : users'[i] = users[i]
       /\ users'[Len(users')].email = toLowerCase(email)
       /\ role = NULL => users'[Len(users')].role = "ANALYST"
       /\ users'[Len(users')].role # "ANALYST" => creatorRole = "ADMIN"
       /\ role # NULL => users'[Len(users')].role = role

C27_PredictionPairsOwnRecord ==
  \A i \in DOMAIN predictions :
     /\ predictions[i].clinicalRecordId \in DOMAIN clinicalRecords
     /\ clinicalRecords[predictions[i].clinicalRecordId].patientId = predictions[i].patientId

RECURSIVE SumCounts(_)
\* The sum of the counts of a set of grouped rows.
SumCounts(rows) ==
  IF rows = {} THEN 0
  ELSE LET row == CHOOSE x \in rows : TRUE
       IN ParseDecimal(row.count) + SumCounts(rows \ {row})

\* C28: the values one getStatistics call returns are mutually consistent,
\* also when runs persist Predictions while it executes: total is the sum
\* of the byRiskLevel counts and the sum of the byType counts, and
\* highRiskCount is the byRiskLevel count for HIGH.
C28_StatisticsConsistent ==
  stats.pc = "returned" =>
    /\ stats.total = SumCounts(stats.byRiskLevel)
    /\ stats.total = SumCounts(stats.byType)
    /\ stats.highRiskCount
         = SumCounts({ row \in stats.byRiskLevel : row.riskLevel = "HIGH" })

\* C29: every prediction request the page sends pairs the currently
\* selected patient with a clinical record that was loaded for that same
\* patient.
C29_PageSendsOwnRecord ==
  [][ (newPredictionPage.step = "select-record" /\ newPredictionPage'.step = "processing") =>
        /\ newPredictionPage'.sent.patientId = newPredictionPage.selectedPatient
        /\ newPredictionPage'.sent.clinicalRecordId = Val(newPredictionPage.selectedRecord).id
        /\ Val(newPredictionPage.selectedRecord).patientId = newPredictionPage.selectedPatient ]_vars


UniqueCurps ==
  \A i, j \in 1..Len(patients) :
    (i # j /\ IsSome(patients[i].curp)) => patients[i].curp # patients[j].curp

\* The call c names a CURP that a patient other than the one it was made
\* for holds.
NamesHeldCurp(c) ==
  /\ IsSome(c.curp)
  /\ \E i \in 1..Len(patients) : i # c.id /\ patients[i].curp = c.curp

\* C30: whatever create and update calls ran, interleaved between their
\* duplicate check and their save or not, no two stored patients have the
\* same non-null CURP, and the save of a call that names a CURP held by a
\* different patient leaves every stored patient as it was.
C30_UniqueCurp ==
  /\ []UniqueCurps
  /\ [][\A c \in patientCalls :
          (c \notin patientCalls' /\ NamesHeldCurp(c)) => patients' = patients]_vars

====
